---- MODULE Spec2Model ----
(***************************************************************************)
(* Session, ServiceLoader, Service and serviceContainer of                  *)
(* github.com/mkungla/happy.                                               *)
(*                                                                         *)
(* Session (session.go): a sticky error, a readiness gate, a lazily        *)
(* allocated done channel, one event channel and the OS-signal context,    *)
(* guarded by one RWMutex.  Destroy is modelled line by line, one action   *)
(* per statement group, so that the two critical sections and the          *)
(* unlocked code between them interleave as goroutines do.                 *)
(***************************************************************************)
EXTENDS Integers, Sequences, FiniteSets, TLC

\* ------------------------------------------------------------------ bounds
\* goroutines that call into one Session
NumProcs == 2
\* resolution of the clock (ms)
TimeStep == 50
\* lifecycle events (started, stopped, addErr) the services perform in one run
MaxEnvEvents == 2
\* handlers one Service registers
MaxHandlers == 3
\* calls of start and stop on one container
MaxCalls == 3
\* cron jobs of one Service in flight at a time
MaxJobs == 1
\* calls of Session.Dispatch by one goroutine
MaxDispatch == 2
\* calls of Cron.Job by one cron setup
MaxCronJobs == 3
\* calls of started, stopped and addErr on one ServiceInfo
MaxInfoCalls == 3
\* goroutines that call the operations of Session, container and loader
LockThreads == 2

Procs == 1..NumProcs

\* --------------------------------------------------------- program constants
\* time.Millisecond * 100, the waiter's ticker (ms)
PollInterval == 100
\* time.Second * 30, the default loader timeout (ms)
DefaultTimeout == 30000

\* "no time": the zero time.Time, a context without deadline, no ticker
Never == 0 - 1

\* ------------------------------------------------------------ error values
ErrSessionDestroyed == "ErrSessionDestroyed"
Canceled == "context.Canceled"
\* the errors callers hand to Destroy ("nil" is Go's nil error)
DestroyArgs == {"nil", "e1", "e2"}

VARIABLES
    \* Session fields
    err,         \* s.err: "nil" or an error
    ready,       \* s.ready context: "nil" (not started), "open", "closed"
    readyFunc,   \* s.readyFunc: "nil" or "set"
    sig,         \* s.sig: "nil" or "set"
    sigErr,      \* s.sig.Err(): "nil" while the signal context is live
    sigRelease,  \* s.sigRelease: "nil" or "set"
    evch,        \* s.evch: "nil", "open", "closed"
    done,        \* s.done: "nil", "open", "closed"
    mu,          \* s.mu: 0 free, otherwise the goroutine holding the write lock
    \* goroutines
    pc,          \* position of each goroutine
    arg,         \* the error a goroutine's Destroy call carries
    crashed,     \* "no", or the runtime panic that ended the process
    \* history
    errWrites,   \* executions of `s.err = err` (line 63)
    gateCalls,   \* calls of s.readyFunc() made by Destroy
    readyCloses, \* times the ready context's Done channel was closed
    sigCalls,    \* calls of s.sigRelease() made by Destroy
    evchCloses,  \* executions of close(s.evch)
    doneCloses,  \* executions of close(s.done)
    firstSeen,   \* first non-nil value returned by an Err() observer
    early,       \* argument of the latest Destroy call that returned at line 58
    firstDestroy,\* effects of Destroy, recorded when the first full Destroy returned
    \* ServiceLoader fields
    lpc,         \* position of the Load() request: its caller, then its waiter goroutine
    loading,     \* sl.loading
    loaderCh,    \* sl.loaderCh: "nil" before construction, "open", "closed"
    loaderErrs,  \* sl.errs
    hostaddr,    \* sl.hostaddr: "nil" or "ok"
    svcs,        \* sl.svcs: the resolved target addresses, in request order
    \* locals of Load() and of its waiter
    timeout,     \* timeout (ms)
    queue,       \* keys of the queue map
    require,     \* require
    idx,         \* position of the range loop over sl.svcs
    ctxDeadline, \* deadline of ctx, Never before ctx exists
    ctxErr,      \* ctx.Err()
    nextTick,    \* when ltick fires next, Never while there is no ticker
    tickPending, \* a tick waits in ltick.C
    todo,        \* queue entries the running range loop has not visited yet
    loaded,      \* loaded
    reason,      \* the argument of the running sl.cancel call
    \* the loader's collaborators
    now,         \* the clock (ms)
    cfgTimeout,  \* option app.service.loader.timeout
    info,        \* the registry: ServiceInfo of every registered service
    envLeft,     \* lifecycle events the services may still perform
    delivered,   \* events the engine has received from s.evch
    \* history
    lchCloses,   \* executions of close(sl.loaderCh)
    closedAt,    \* when sl.loaderCh was closed
    lpath,       \* the path the Load() request ended on
    \* Service and serviceContainer
    listeners,   \* s.svc.listeners: listener id -> handlers, in registration order
    cinfo,       \* s.info, the container's ServiceInfo
    cpc,         \* position of the goroutine that calls into the container
    ev,          \* handleEvent: the event
    hleft,       \* handleEvent: keys the range has not visited
    hkey,        \* handleEvent: the key being visited
    hidx,        \* handleEvent: position in the handlers of that key
    calls,       \* handleEvent: handlers called, with what they returned
    startAction, \* s.svc.startAction: "nil" or "set"
    stopAction,  \* s.svc.stopAction: "nil" or "set"
    cron,        \* s.cron: "nil" or "set"
    cronOn,      \* the scheduler of s.cron is running
    cronJobs,    \* jobs the scheduler has started and that have not returned
    cctx,        \* s.ctx with s.cancel: "nil", "live" or "cancelled"
    cause,       \* stop: the argument e
    hres,        \* start, stop: what the hook returned
    lerr,        \* start, stop: the named result err
    ret,         \* what the last call of start or stop returned
    \* history
    op,          \* the last call: "start" or "stop"
    cpre,        \* s.info when that call began
    stopLog,     \* the steps of that stop, with the jobs in flight at each
    \* a goroutine that calls Session.Dispatch
    dpc,         \* its position: "idle", "send" or "returned"
    dev,         \* the event it dispatches
    evbuf,       \* the buffer of s.evch
    dlog,        \* history: the events whose send has completed
    dcount,      \* history: calls of Dispatch
    \* a second goroutine that calls ServiceLoader.Load
    l2pc,        \* its position
    reason2,     \* the reason it cancels with
    require2,    \* its local require
    \* Cron
    jobIDs,      \* cs.jobIDs
    libN,        \* entries the scheduler library holds: ids 1..libN
    startFlag,   \* option app.cron.on.service.start
    kpc,         \* position of the goroutine that calls Start and Stop
    kidx,        \* Start: position in cs.jobIDs
    firstRuns,   \* jobs Start has launched and that have not returned
    \* history
    regOk,       \* for each call of Job, whether the registration succeeded
    firstLog,    \* the entry ids of the jobs Start has launched
    \* ServiceInfo, seen with its lock
    imu,         \* s.mu of the ServiceInfo: writer inside, readers inside
    wpc,         \* position of the goroutine that calls started, stopped, addErr
    warg,        \* the call it is in
    rpc,         \* position of the goroutine that polls Errs()
    rleft,       \* the keys its range over the map has yet to produce
    rseen,       \* the errors its range has produced
    \* history
    passed,      \* the non-nil errors addErr was called with
    icalls,      \* calls of started, stopped and addErr
    \* Service: the other hooks
    initializeAction, \* svc.initializeAction: "nil" or "set"
    tickAction,  \* svc.tickAction
    tockAction,  \* svc.tockAction
    cronsetup,   \* svc.cronsetup
    \* contexts
    ectx,        \* the engine's context: "live" or "cancelled"
    ccause,      \* context.Cause of s.ctx: NoErr while it is not cancelled
    pastCtx,     \* history: the contexts that start has replaced
    \* goroutines seen by the locks they take
    lop,         \* for each goroutine, the operation it is in, or "idle"
    lidx,        \* its position in the operation
    lw,          \* for each lock, the goroutine inside as writer, or 0
    lr,          \* for each lock, the goroutines inside as readers
    \* history of initialize
    cronBuilt,   \* calls of newCron
    setupCalls,  \* calls of svc.cronsetup
    \* history of Load
    seenRunning, \* what Running() answered at each visit of the scan
    tickErrs,    \* the queued targets with a recorded error when the poll began
    tickSeen,    \* the targets this poll found Running and without error
    lastCall,    \* the latest call of Session.Destroy or Session.Value
    again        \* a second Load() on the same loader: "no", or what sl.errs held

sessFields == <<err, ready, readyFunc, sig, sigErr, sigRelease, evch, done, mu>>
sessProcs == <<pc, arg, crashed>>
sessHist == <<errWrites, gateCalls, readyCloses, sigCalls, evchCloses, doneCloses,
              firstSeen, early, firstDestroy>>
sessVars == <<sessFields, sessProcs, sessHist>>

loaderFields == <<lpc, loading, loaderCh, loaderErrs, hostaddr, svcs>>
loadLocals == <<timeout, queue, require, idx, ctxDeadline, ctxErr, nextTick, tickPending,
                todo, loaded, reason>>
loaderEnv == <<now, cfgTimeout, info, envLeft, delivered>>
loaderHist == <<lchCloses, closedAt, lpath>>
loaderVars == <<loaderFields, loadLocals, loaderEnv, loaderHist>>

evtVars == <<listeners, ev, hleft, hkey, hidx, calls>>
lifeVars == <<startAction, stopAction, cron, cronOn, cronJobs, cctx, cause, hres, lerr,
              ret, op, cpre, stopLog>>
auxVars == <<dpc, dev, evbuf, dlog, dcount, l2pc, reason2, require2>>
cronVars == <<jobIDs, libN, startFlag, kpc, kidx, firstRuns, regOk, firstLog>>
infoVars == <<imu, wpc, warg, rpc, rleft, rseen, passed, icalls>>
hookVars == <<initializeAction, tickAction, tockAction, cronsetup>>
ctxVars == <<ectx, ccause, pastCtx>>
lockVars == <<lop, lidx, lw, lr>>
initVars == <<cronBuilt, setupCalls>>
scanVars == <<seenRunning, tickErrs, tickSeen>>
probeVars == <<lastCall>>
reloadVars == <<again>>
restVars == <<hookVars, ctxVars, lockVars, initVars, scanVars, probeVars, reloadVars>>
moreVars == <<cronVars, infoVars, restVars>>
extVars == <<cinfo, cpc, evtVars, lifeVars, auxVars, moreVars>>

vars == <<sessVars, loaderVars, extVars>>

NoSnap == [set |-> FALSE]

\* What Destroy has done to the Session so far.
DestroyEffects ==
    [set |-> TRUE, err |-> err, writes |-> errWrites, gate |-> gateCalls,
     sig |-> sigCalls, ev |-> evchCloses, dn |-> doneCloses]

\* A Session before start(): the zero value of every field, but for the
\* event channel, which Destroy and events() allow to be nil or allocated.
SessInit ==
    /\ err = "nil"
    /\ ready = "nil" /\ readyFunc = "nil"
    /\ sig = "nil" /\ sigErr = "nil" /\ sigRelease = "nil"
    /\ evch \in {"nil", "open"}
    /\ done = "nil"
    /\ mu = 0
    /\ pc = [t \in Procs |-> "idle"]
    /\ arg = [t \in Procs |-> "nil"]
    /\ crashed = "no"
    /\ errWrites = 0 /\ gateCalls = 0 /\ readyCloses = 0 /\ sigCalls = 0
    /\ evchCloses = 0 /\ doneCloses = 0
    /\ firstSeen = "nil"
    /\ early = "none"
    /\ firstDestroy = NoSnap

Goto(t, l) == pc' = [pc EXCEPT ![t] = l]
At(t, l) == crashed = "no" /\ pc[t] = l
AllIdle == \A t \in Procs : pc[t] = "idle"

\* ------------------------------------------------------------ Session.start
\* start() builds the ready context and the signal context.  NotifyContext
\* derives from the Session itself: context.WithCancel(parent) calls
\* parent.Done(), which allocates s.done.  The engine calls start() before it
\* hands the Session to other goroutines.
start ==
    /\ crashed = "no" /\ AllIdle
    /\ readyFunc = "nil" /\ err = "nil"
    /\ ready' = "open" /\ readyFunc' = "set"
    /\ sig' = "set" /\ sigRelease' = "set"
    /\ done' = IF done = "nil" THEN "open" ELSE done
    /\ UNCHANGED <<err, sigErr, evch, mu, sessProcs, sessHist>>
    /\ UNCHANGED <<loaderVars, extVars>>

\* ------------------------------------------------------------- Session.Err
\* Err() takes the read lock, so it returns only while no writer holds s.mu.
ErrReadable == mu = 0

\* An observer goroutine calls Err().
Err ==
    /\ crashed = "no" /\ ErrReadable
    /\ firstSeen = "nil"
    /\ firstSeen' = err
    /\ UNCHANGED <<sessFields, sessProcs, errWrites, gateCalls, readyCloses, sigCalls,
                   evchCloses, doneCloses, early, firstDestroy>>
    /\ UNCHANGED <<loaderVars, extVars>>

\* ------------------------------------------------------------ Session.Done
Done ==
    /\ crashed = "no" /\ mu = 0
    /\ done' = IF done = "nil" THEN "open" ELSE done
    /\ UNCHANGED <<err, ready, readyFunc, sig, sigErr, sigRelease, evch, mu,
                   sessProcs, sessHist>>
    /\ UNCHANGED <<loaderVars, extVars>>

\* cancelling a context closes its Done channel the first time only
CancelCloses(state) == IF state = "open" THEN 1 ELSE 0
CancelCtx(state) == IF state = "open" THEN "closed" ELSE state

\* -------------------------------------------------------- Session.setReady
setReady ==
    /\ crashed = "no" /\ mu = 0
    /\ readyFunc = "set"
    /\ ready' = CancelCtx(ready)
    /\ readyCloses' = readyCloses + CancelCloses(ready)
    /\ UNCHANGED <<err, readyFunc, sig, sigErr, sigRelease, evch, done, mu, sessProcs,
                   errWrites, gateCalls, sigCalls, evchCloses, doneCloses,
                   firstSeen, early, firstDestroy>>
    /\ UNCHANGED <<loaderVars, extVars>>

\* --------------------------------------------------------- Session.Destroy
\* everything outside the Session and the loader, but for lastCall
extButCall == <<cinfo, cpc, evtVars, lifeVars, auxVars, cronVars, infoVars, hookVars,
                ctxVars, lockVars, initVars, scanVars, reloadVars>>

NotProbed == lastCall = [op |-> "none"]

\* a goroutine calls Destroy(e)
DestroyCall(t, e) ==
    /\ At(t, "idle")
    /\ Goto(t, "check")
    /\ arg' = [arg EXCEPT ![t] = e]
    /\ lastCall' = [op |-> "Destroy", arg |-> e]
    /\ UNCHANGED <<sessFields, crashed, sessHist>>
    /\ UNCHANGED <<loaderVars, extButCall>>

\* the dynamic types of the keys handed to Value
ValueKeys == {"*int", "string", "other"}

\* line 122: whether the *int probe destroys the Session
ProbeFiresAlways == TRUE
ProbeFires == sig # "nil" /\ sigErr # "nil"

\* Value(key): a string key reads the options (found or not), a *int key is
\* the probe, which runs Destroy with the signal context's error before it
\* returns nil; any other key returns nil.
Value(t, k) ==
    /\ At(t, "idle")
    /\ IF k = "*int" /\ ProbeFires
       THEN /\ Goto(t, "check") /\ arg' = [arg EXCEPT ![t] = sigErr]
            /\ lastCall' = [op |-> "Value", key |-> k, ret |-> "nil", destroy |-> sigErr]
       ELSE /\ UNCHANGED <<pc, arg>>
            /\ \E v \in IF k = "string" THEN {"nil", "v"} ELSE {"nil"} :
                 lastCall' = [op |-> "Value", key |-> k, ret |-> v, destroy |-> "none"]
    /\ UNCHANGED <<sessFields, crashed, sessHist>>
    /\ UNCHANGED <<loaderVars, extButCall>>

\* line 55: what `s.Err() != nil` decides
AlreadyDestroyedNever(e) == FALSE
AlreadyDestroyed(e) == e # "nil"

\* lines 55-59
DestroyCheck(t) ==
    /\ At(t, "check") /\ ErrReadable
    /\ IF AlreadyDestroyed(err)
       THEN /\ Goto(t, "idle")
            /\ early' = arg[t]
            /\ arg' = [arg EXCEPT ![t] = "nil"]
       ELSE /\ Goto(t, "lock1")
            /\ UNCHANGED <<early, arg>>
    /\ UNCHANGED <<sessFields, crashed, errWrites, gateCalls, readyCloses, sigCalls,
                   evchCloses, doneCloses, firstSeen, firstDestroy>>
    /\ UNCHANGED <<loaderVars, extVars>>

\* lines 61-63: s.mu.Lock(); s.err = err
DestroySetErr(t) ==
    /\ At(t, "lock1") /\ mu = 0
    /\ mu' = t
    /\ err' = arg[t]
    /\ errWrites' = errWrites + 1
    /\ Goto(t, "gate")
    /\ UNCHANGED <<ready, readyFunc, sig, sigErr, sigRelease, evch, done,
                   arg, crashed, gateCalls, readyCloses, sigCalls, evchCloses, doneCloses,
                   firstSeen, early, firstDestroy>>
    /\ UNCHANGED <<loaderVars, extVars>>

\* lines 68-70
ErrOrDefault(e) == IF e = "nil" THEN ErrSessionDestroyed ELSE e

\* lines 65-70: release the readiness gate, then default the error
DestroyReadyFunc(t) ==
    /\ At(t, "gate")
    /\ IF readyFunc # "nil"
       THEN /\ ready' = CancelCtx(ready)
            /\ readyCloses' = readyCloses + CancelCloses(ready)
            /\ gateCalls' = gateCalls + 1
       ELSE UNCHANGED <<ready, readyCloses, gateCalls>>
    /\ err' = ErrOrDefault(err)
    /\ Goto(t, "unlock1")
    /\ UNCHANGED <<readyFunc, sig, sigErr, sigRelease, evch, done, mu,
                   arg, crashed, errWrites, sigCalls, evchCloses, doneCloses,
                   firstSeen, early, firstDestroy>>
    /\ UNCHANGED <<loaderVars, extVars>>

\* line 72
DestroyUnlock1(t) ==
    /\ At(t, "unlock1")
    /\ mu' = 0
    /\ Goto(t, "sigcheck")
    /\ UNCHANGED <<err, ready, readyFunc, sig, sigErr, sigRelease, evch, done,
                   arg, crashed, sessHist>>
    /\ UNCHANGED <<loaderVars, extVars>>

\* line 74: s.sigRelease is read without the lock
DestroySigCheck(t) ==
    /\ At(t, "sigcheck")
    /\ IF sigRelease # "nil" THEN Goto(t, "sigcall") ELSE Goto(t, "lock2")
    /\ UNCHANGED <<sessFields, arg, crashed, sessHist>>
    /\ UNCHANGED <<loaderVars, extVars>>

\* line 75: s.sigRelease() reads the field again; another Destroy may have set
\* it to nil since line 74, and calling a nil func panics.  The cancel func
\* cancels the signal context, which then probes its parent through
\* Session.Value(*int); that nested Destroy returns at line 58 once it gets
\* the read lock, because s.err is already set.
DestroySigCall(t) ==
    /\ At(t, "sigcall")
    /\ IF sigRelease = "nil"
       THEN /\ crashed' = "nil func call"
            /\ UNCHANGED <<sigErr, sigCalls, pc>>
       ELSE /\ ErrReadable
            /\ sigErr' = IF sigErr = "nil" THEN Canceled ELSE sigErr
            /\ sigCalls' = sigCalls + 1
            /\ Goto(t, "signil")
            /\ UNCHANGED crashed
    /\ UNCHANGED <<err, ready, readyFunc, sig, sigRelease, evch, done, mu, arg,
                   errWrites, gateCalls, readyCloses, evchCloses, doneCloses,
                   firstSeen, early, firstDestroy>>
    /\ UNCHANGED <<loaderVars, extVars>>

\* line 76
DestroySigNil(t) ==
    /\ At(t, "signil")
    /\ sigRelease' = "nil"
    /\ Goto(t, "lock2")
    /\ UNCHANGED <<err, ready, readyFunc, sig, sigErr, evch, done, mu,
                   arg, crashed, sessHist>>
    /\ UNCHANGED <<loaderVars, extVars>>

\* lines 79-82: s.mu.Lock(); close(s.evch) unless nil.  Closing a closed
\* channel panics.
DestroyCloseEvch(t) ==
    /\ At(t, "lock2") /\ mu = 0
    /\ mu' = t
    /\ IF evch # "nil"
       THEN /\ evchCloses' = evchCloses + 1
            /\ IF evch = "closed"
               THEN crashed' = "close of closed channel" /\ UNCHANGED <<evch, pc>>
               ELSE evch' = "closed" /\ Goto(t, "closedone") /\ UNCHANGED crashed
       ELSE Goto(t, "closedone") /\ UNCHANGED <<evch, evchCloses, crashed>>
    /\ UNCHANGED <<err, ready, readyFunc, sig, sigErr, sigRelease, done, arg,
                   errWrites, gateCalls, readyCloses, sigCalls, doneCloses,
                   firstSeen, early, firstDestroy>>
    /\ UNCHANGED <<loaderVars, extVars>>

\* lines 84-89: close(s.done) unless nil; s.mu.Unlock(); return
DestroyCloseDone(t) ==
    /\ At(t, "closedone")
    /\ IF done = "closed"
       THEN /\ doneCloses' = doneCloses + 1
            /\ crashed' = "close of closed channel"
            /\ UNCHANGED <<done, pc, arg, mu, firstDestroy>>
       ELSE /\ done' = IF done = "nil" THEN "nil" ELSE "closed"
            /\ doneCloses' = IF done = "nil" THEN doneCloses ELSE doneCloses + 1
            /\ mu' = 0
            /\ Goto(t, "idle")
            /\ arg' = [arg EXCEPT ![t] = "nil"]
            /\ firstDestroy' =
                 IF firstDestroy.set THEN firstDestroy
                 ELSE [set |-> TRUE, err |-> ErrOrDefault(arg[t]), writes |-> errWrites,
                       gate |-> gateCalls, sig |-> sigCalls, ev |-> evchCloses,
                       dn |-> doneCloses']
            /\ UNCHANGED crashed
    /\ UNCHANGED <<err, ready, readyFunc, sig, sigErr, sigRelease, evch,
                   errWrites, gateCalls, readyCloses, sigCalls, evchCloses,
                   firstSeen, early>>
    /\ UNCHANGED <<loaderVars, extVars>>

\* ------------------------------------------------- the signal context
\* os.Interrupt arrives: the NotifyContext goroutine cancels the context.
OsSignal ==
    /\ crashed = "no"
    /\ sig = "set" /\ sigErr = "nil"
    /\ sigErr' = Canceled
    /\ UNCHANGED <<err, ready, readyFunc, sig, sigRelease, evch, done, mu,
                   sessProcs, sessHist>>
    /\ UNCHANGED <<loaderVars, extVars>>


(***************************************************************************)
(* ServiceLoader (service.go).  One Load() request: the caller runs        *)
(* Load() up to `go func()`, the waiter goroutine takes over from there;   *)
(* lpc is the position of whichever of the two is running.                 *)
(***************************************************************************)

\* ----------------------------------------------------------------- errors
Er(k, a, e) == [k |-> k, a |-> a, e |-> e]
DeadlineExceeded == "context.DeadlineExceeded"
ErrParse == Er("address.Parse", "-", "-")
ErrHostAddr == Er("loader requires valid app.host.addr", "-", "-")
ErrNotService(n) == Er("not a service", n, "-")
ErrInit == Er("init", "-", "loader initializeton failed")
ErrRegistry(a) == Er("registry", a, "-")
ErrDuplicate(a) == Er("duplicate", a, "duplicated service request")
ErrLate(a) == Er("late", a, "service did not load on time")
ErrFailed(a) == Er("failfast", a, "service loader failed to load required services")
ErrCtx(e) == Er("ctx", "-", e)
ErrChecked == Er("usage", "-", "service loader error checked before loader finished")
\* the errors services record in their ServiceInfo
SvcErrs == {"x"}

\* ---------------------------------------------------------------- addresses
AddrA == "happy://host/inst/service/a"
AddrB == "happy://host/inst/service/b"
AddrC == "happy://host/inst/service/c"
\* services the engine has registered; c resolves but is not registered
Registered == {AddrA, AddrB}

\* Address.ResolveService on the host address happy://host/inst: a name
\* without the happy:// prefix is joined to <instance>/service/, a full URL is
\* taken as it is, and the result must lie under /<instance>/service.
ResolveService(n) ==
    CASE n = "a" -> [ok |-> TRUE, addr |-> AddrA]
      [] n = "happy://host/inst/service/a" -> [ok |-> TRUE, addr |-> AddrA]
      [] n = "b" -> [ok |-> TRUE, addr |-> AddrB]
      [] n = "c" -> [ok |-> TRUE, addr |-> AddrC]
      [] OTHER -> [ok |-> FALSE, addr |-> n]

\* what callers pass to NewServiceLoader: whether app.host.addr parses, and
\* the requested names
CtorInputs ==
    {[host |-> TRUE, names |-> r] :
        r \in {<<>>, <<"a">>, <<"a", "b">>, <<"a", "happy://host/inst/service/a">>,
               <<"a", "happy://host/other/x">>, <<"c", "a">>}}
    \cup {[host |-> FALSE, names |-> <<>>], [host |-> FALSE, names |-> <<"a">>]}

\* values of option app.service.loader.timeout (ms)
TimeoutOptions == {100, 150}

OkNames(names) == SelectSeq(names, LAMBDA n : ResolveService(n).ok)
BadNames(names) == SelectSeq(names, LAMBDA n : ~ResolveService(n).ok)

\* lines 118-142: the loader NewServiceLoader returns.  With a nil hostaddr
\* (app.host.addr did not parse) hostaddr.ResolveService dereferences nil.
NewServiceLoader(in) ==
    /\ lpc = "new" /\ loading = FALSE
    /\ IF ~in.host /\ in.names # <<>>
       THEN /\ crashed = "nil pointer dereference"
            /\ loaderCh = "nil" /\ hostaddr = "nil" /\ loaderErrs = <<>> /\ svcs = <<>>
       ELSE /\ crashed = "no"
            /\ loaderCh = "open"
            /\ hostaddr = (IF in.host THEN "ok" ELSE "nil")
            /\ loaderErrs =
                 (IF in.host THEN <<>> ELSE <<ErrParse, ErrHostAddr>>)
                 \o [i \in 1..Len(BadNames(in.names)) |-> ErrNotService(BadNames(in.names)[i])]
            /\ svcs = [i \in 1..Len(OkNames(in.names)) |->
                         ResolveService(OkNames(in.names)[i]).addr]

\* lines 157-165
EffectiveTimeoutAsRead(cfg) == cfg
EffectiveTimeout(cfg) == IF cfg <= 0 THEN DefaultTimeout ELSE cfg

\* line 149: the test on the errors accumulated so far
InitFailedNever(errs) == FALSE
InitFailed(errs) == Len(errs) > 0

\* lines 144-170: a second call while loading returns the channel as it is
LoadEntry ==
    IF loading
    THEN UNCHANGED <<lpc, loading, reason, timeout, idx, queue, require>>
    ELSE /\ loading' = TRUE
         /\ IF InitFailed(loaderErrs)
            THEN /\ lpc' = "cancel"
                 /\ reason' = ErrInit
                 /\ UNCHANGED <<timeout, idx, queue, require>>
            ELSE /\ lpc' = IF Len(svcs) = 0 THEN "dispatch" ELSE "scan"
                 /\ timeout' = EffectiveTimeout(cfgTimeout)
                 /\ idx' = 1 /\ queue' = {} /\ require' = <<>>
                 /\ UNCHANGED reason

\* the first Load() on a loader
Load ==
    /\ crashed = "no" /\ lpc = "new"
    /\ LoadEntry
    /\ UNCHANGED <<sessVars, loaderCh, loaderErrs, hostaddr, svcs, ctxDeadline, ctxErr,
                   nextTick, tickPending, todo, loaded, loaderEnv, loaderHist>>
    /\ UNCHANGED extVars

NotReloaded == again = "no"

\* Load() called again on a loader whose first request has ended; the
\* notification channel is the one NewServiceLoader made (line 121), nothing
\* in Load assigns sl.loaderCh
LoadAgain ==
    /\ crashed = "no" /\ lpc = "finished" /\ again = "no"
    /\ LoadEntry
    /\ again' = IF Len(loaderErrs) > 0 THEN "errors" ELSE "clean"
    /\ seenRunning' = <<>> /\ tickErrs' = {} /\ tickSeen' = {}
    /\ UNCHANGED <<sessVars, loaderCh, loaderErrs, hostaddr, svcs, ctxDeadline, ctxErr,
                   nextTick, tickPending, todo, loaded, loaderEnv, loaderHist>>
    /\ UNCHANGED <<cinfo, cpc, evtVars, lifeVars, auxVars, cronVars, infoVars, hookVars,
                   ctxVars, lockVars, initVars, probeVars>>

\* the Session's registry lookup, sess.ServiceInfo(addr)
ServiceInfoKnown(a) == a \in Registered

\* line 182: the duplicate test looks the address up in the queue map
InQueue(a, q) == a \in q

\* lines 190-196: a target is left out of the queue
SkippedNever(i) == FALSE
Skipped(i) == i.running

\* line 190: what info.Running() answers when the scan visits target a
SeenAt(a) == Append(seenRunning, info[a].running)

\* lines 175-203: one iteration of the range loop over sl.svcs
LoadScan ==
    /\ crashed = "no" /\ lpc = "scan"
    /\ LET a == svcs[idx]
           next == IF idx + 1 > Len(svcs) THEN "dispatch" ELSE "scan"
       IN  IF ~ServiceInfoKnown(a)
           THEN /\ lpc' = "cancel" /\ reason' = ErrRegistry(a)
                /\ UNCHANGED <<idx, queue, require, seenRunning>>
           ELSE IF InQueue(a, queue)
           THEN /\ lpc' = "cancel" /\ reason' = ErrDuplicate(a)
                /\ UNCHANGED <<idx, queue, require, seenRunning>>
           ELSE IF Skipped(info[a])
           THEN /\ lpc' = next /\ idx' = idx + 1
                /\ seenRunning' = SeenAt(a)
                /\ UNCHANGED <<reason, queue, require>>
           ELSE /\ lpc' = next /\ idx' = idx + 1
                /\ queue' = queue \cup {a}
                /\ require' = Append(require, a)
                /\ seenRunning' = SeenAt(a)
                /\ UNCHANGED reason
    /\ UNCHANGED <<sessVars, loading, loaderCh, loaderErrs, hostaddr, svcs, timeout,
                   ctxDeadline, ctxErr, nextTick, tickPending, todo, loaded,
                   loaderEnv, loaderHist>>
    /\ UNCHANGED <<cinfo, cpc, evtVars, lifeVars, auxVars, cronVars, infoVars, hookVars,
                   ctxVars, lockVars, initVars, probeVars, reloadVars>>
    /\ UNCHANGED <<tickErrs, tickSeen>>

\* lines 281-288
StartServicesEvent(s) == [scope |-> "services", key |-> "start.services", payload |-> s]

\* line 205, Session.Dispatch lines 147-153: the send on s.evch completes when
\* the engine receives; on a nil channel it blocks for ever, on a closed
\* channel it panics.
LoadDispatch ==
    /\ crashed = "no" /\ lpc = "dispatch"
    /\ evch # "nil"
    /\ IF evch = "closed"
       THEN /\ crashed' = "send on closed channel"
            /\ UNCHANGED <<lpc, delivered>>
       ELSE /\ delivered' = Append(delivered, StartServicesEvent(require))
            /\ lpc' = "mkctx"
            /\ UNCHANGED crashed
    /\ UNCHANGED <<sessFields, pc, arg, sessHist, loading, loaderCh, loaderErrs, hostaddr,
                   svcs, loadLocals, now, cfgTimeout, info, envLeft, loaderHist>>
    /\ UNCHANGED extVars

\* lines 207-209 and 249: ctx derives from the Session, so WithTimeout calls
\* sess.Done() (which allocates s.done); the waiter is started and Load returns.
LoadCtx ==
    /\ crashed = "no" /\ lpc = "mkctx"
    /\ mu = 0
    /\ done' = IF done = "nil" THEN "open" ELSE done
    /\ ctxDeadline' = now + timeout
    /\ ctxErr' = "nil"
    /\ lpc' = "wstart"
    /\ UNCHANGED <<err, ready, readyFunc, sig, sigErr, sigRelease, evch, mu, sessProcs,
                   sessHist, loading, loaderCh, loaderErrs, hostaddr, svcs, timeout, queue,
                   require, idx, nextTick, tickPending, todo, loaded, reason,
                   loaderEnv, loaderHist>>
    /\ UNCHANGED extVars

WaiterPcs == {"wstart", "select", "poll", "expire"}

\* the timer of context.WithTimeout
ctxTimer ==
    /\ crashed = "no" /\ lpc \in WaiterPcs
    /\ ctxErr = "nil" /\ now >= ctxDeadline
    /\ ctxErr' = DeadlineExceeded
    /\ UNCHANGED <<sessVars, loaderFields, timeout, queue, require, idx, ctxDeadline,
                   nextTick, tickPending, todo, loaded, reason, loaderEnv, loaderHist>>
    /\ UNCHANGED extVars

\* the parent of ctx is the Session: when s.done is closed ctx is cancelled
\* with the Session's error
ctxParentDone ==
    /\ crashed = "no" /\ lpc \in WaiterPcs
    /\ ctxErr = "nil" /\ done = "closed" /\ ErrReadable
    /\ ctxErr' = err
    /\ UNCHANGED <<sessVars, loaderFields, timeout, queue, require, idx, ctxDeadline,
                   nextTick, tickPending, todo, loaded, reason, loaderEnv, loaderHist>>
    /\ UNCHANGED extVars

\* lines 209-213
WaiterStart ==
    /\ crashed = "no" /\ lpc = "wstart"
    /\ nextTick' = now + PollInterval
    /\ tickPending' = FALSE
    /\ lpc' = "select"
    /\ UNCHANGED <<sessVars, loading, loaderCh, loaderErrs, hostaddr, svcs, timeout, queue,
                   require, idx, ctxDeadline, ctxErr, todo, loaded, reason,
                   loaderEnv, loaderHist>>
    /\ UNCHANGED extVars

\* lines 217-219: select takes the ctx.Done() case
WaiterCtxDone ==
    /\ crashed = "no" /\ lpc = "select"
    /\ ctxErr # "nil"
    /\ lpc' = "expire"
    /\ todo' = queue
    /\ UNCHANGED <<sessVars, loading, loaderCh, loaderErrs, hostaddr, svcs, timeout, queue,
                   require, idx, ctxDeadline, ctxErr, nextTick, tickPending, loaded, reason,
                   loaderEnv, loaderHist>>
    /\ UNCHANGED extVars

\* lines 217 and 227-228: select takes the ltick.C case
WaiterTick ==
    /\ crashed = "no" /\ lpc = "select"
    /\ tickPending
    /\ tickPending' = FALSE
    /\ lpc' = "poll"
    /\ todo' = queue
    /\ loaded' = 0
    /\ tickErrs' = {a \in queue : DOMAIN info[a].errs # {}}
    /\ tickSeen' = {}
    /\ UNCHANGED <<sessVars, loading, loaderCh, loaderErrs, hostaddr, svcs, timeout, queue,
                   require, idx, ctxDeadline, ctxErr, nextTick, reason,
                   loaderEnv, loaderHist>>
    /\ UNCHANGED <<cinfo, cpc, evtVars, lifeVars, auxVars, cronVars, infoVars, hookVars,
                   ctxVars, lockVars, initVars, probeVars, reloadVars>>
    /\ UNCHANGED seenRunning

\* line 221: which targets get a "did not load on time" error
LateAll(st) == TRUE
Late(st) == ~st.running

\* lines 220-226: one iteration of the range loop over queue, then sl.cancel(ctx.Err())
WaiterExpire ==
    /\ crashed = "no" /\ lpc = "expire"
    /\ IF todo = {}
       THEN /\ lpc' = "cancel"
            /\ reason' = ErrCtx(ctxErr)
            /\ UNCHANGED <<todo, loaderErrs>>
       ELSE \E a \in todo :
            /\ todo' = todo \ {a}
            /\ loaderErrs' = IF Late(info[a]) THEN Append(loaderErrs, ErrLate(a))
                             ELSE loaderErrs
            /\ UNCHANGED <<lpc, reason>>
    /\ UNCHANGED <<sessVars, loading, loaderCh, hostaddr, svcs, timeout, queue,
                   require, idx, ctxDeadline, ctxErr, nextTick, tickPending, loaded,
                   loaderEnv, loaderHist>>
    /\ UNCHANGED extVars

\* the orders in which a range loop visits the keys of a map
Orders(S) == {o \in [1..Cardinality(S) -> S] : \A i, j \in 1..Cardinality(S) : i # j => o[i] # o[j]}

\* lines 230-236 before lines 237-239: a target with recorded errors ends the
\* poll, before its Running() is looked at
FailFastUnlessRunning(i) == DOMAIN i.errs # {} /\ ~i.running
FailFast(i) == DOMAIN i.errs # {}

\* lines 228-243: one iteration of the range loop over queue; after the last
\* one, `loaded == qlen` decides between success and the next select
WaiterPoll ==
    /\ crashed = "no" /\ lpc = "poll"
    /\ IF todo = {}
       THEN /\ lpc' = IF loaded = Cardinality(queue) THEN "done" ELSE "select"
            /\ loaded' = 0
            /\ IF loaded = Cardinality(queue)
               THEN UNCHANGED <<tickErrs, tickSeen>>
               ELSE tickErrs' = {} /\ tickSeen' = {}
            /\ UNCHANGED <<todo, loaderErrs, reason>>
       ELSE \E a \in todo :
            IF FailFast(info[a])
            THEN \E o \in Orders(DOMAIN info[a].errs) :
                 /\ loaderErrs' = loaderErrs \o
                        [i \in 1..Len(o) |-> Er("svc", a, info[a].errs[o[i]])]
                 /\ lpc' = "cancel"
                 /\ reason' = ErrFailed(a)
                 /\ todo' = {} /\ loaded' = 0
                 /\ UNCHANGED <<tickErrs, tickSeen>>
            ELSE /\ todo' = todo \ {a}
                 /\ loaded' = IF info[a].running THEN loaded + 1 ELSE loaded
                 /\ tickSeen' = IF info[a].running /\ DOMAIN info[a].errs = {}
                                 THEN tickSeen \cup {a} ELSE tickSeen
                 /\ UNCHANGED <<lpc, loaderErrs, reason, tickErrs>>
    /\ UNCHANGED <<sessVars, loading, loaderCh, hostaddr, svcs, timeout, queue,
                   require, idx, ctxDeadline, ctxErr, nextTick, tickPending,
                   loaderEnv, loaderHist>>
    /\ UNCHANGED <<cinfo, cpc, evtVars, lifeVars, auxVars, cronVars, infoVars, hookVars,
                   ctxVars, lockVars, initVars, probeVars, reloadVars>>
    /\ UNCHANGED seenRunning

\* lines 260-263 (ServiceLoader.cancel) with addErr, lines 274-279
loaderCancel ==
    /\ crashed = "no" /\ lpc = "cancel"
    /\ loaderErrs' = Append(loaderErrs, reason)
    /\ loading' = FALSE
    /\ lpath' = reason.k
    /\ lpc' = "close"
    /\ UNCHANGED <<sessVars, loaderCh, hostaddr, svcs, loadLocals, loaderEnv,
                   lchCloses, closedAt>>
    /\ UNCHANGED extVars

\* lines 268-270 (ServiceLoader.done)
loaderDone ==
    /\ crashed = "no" /\ lpc = "done"
    /\ loading' = FALSE
    /\ lpath' = "success"
    /\ lpc' = "close"
    /\ UNCHANGED <<sessVars, loaderCh, loaderErrs, hostaddr, svcs, loadLocals, loaderEnv,
                   lchCloses, closedAt>>
    /\ UNCHANGED extVars

\* lines 225, 236 and 246-247: after cancel() the waiter returns, and done() is
\* its last statement
AfterCloseFallThrough(path) == IF path = "ctx" THEN "done" ELSE "finished"
AfterClose(path) == "finished"

\* lines 264 and 271: the deferred close(sl.loaderCh)
CloseLoaderCh ==
    /\ crashed = "no" /\ lpc = "close"
    /\ lchCloses' = lchCloses + 1
    /\ IF loaderCh = "closed"
       THEN /\ crashed' = "close of closed channel"
            /\ UNCHANGED <<loaderCh, lpc, closedAt>>
       ELSE /\ loaderCh' = "closed"
            /\ closedAt' = now
            /\ lpc' = AfterClose(lpath)
            /\ UNCHANGED crashed
    /\ UNCHANGED <<sessFields, pc, arg, sessHist, loading, loaderErrs, hostaddr, svcs,
                   loadLocals, loaderEnv, lpath>>
    /\ UNCHANGED extVars

\* lines 252-257
LoaderErrUnguarded == loaderErrs
LoaderErr == IF loading THEN <<ErrChecked>> ELSE loaderErrs

\* ------------------------------------------------------------------ time
\* the clock advances by one grain while the waiter is blocked in select with
\* no case ready (the statements of Load and of the loops take less than a
\* grain, and a ready case is taken within one); the ticker drops a tick into
\* ltick.C when one is due
Tick ==
    /\ crashed = "no"
    /\ lpc = "select" /\ ~tickPending /\ ctxErr = "nil"
    /\ now < ctxDeadline
    /\ now' = now + TimeStep
    /\ IF nextTick # Never /\ now' >= nextTick
       THEN tickPending' = TRUE /\ nextTick' = nextTick + PollInterval
       ELSE UNCHANGED <<tickPending, nextTick>>
    /\ UNCHANGED <<sessVars, loaderFields, timeout, queue, require, idx, ctxDeadline,
                   ctxErr, todo, loaded, reason, cfgTimeout, info, envLeft, delivered,
                   loaderHist>>
    /\ UNCHANGED extVars

\* ------------------------------------------------------------- ServiceInfo
\* the registered services among the loader's targets
Targets == {svcs[i] : i \in 1..Len(svcs)} \cap Registered

\* lines 351-356
started(a) ==
    /\ crashed = "no" /\ envLeft > 0
    /\ ~info[a].running
    /\ info' = [info EXCEPT ![a].running = TRUE, ![a].startedAt = now]
    /\ envLeft' = envLeft - 1
    /\ UNCHANGED <<sessVars, loaderFields, loadLocals, now, cfgTimeout, delivered,
                   loaderHist>>
    /\ UNCHANGED extVars

\* lines 358-363
stopped(a) ==
    /\ crashed = "no" /\ envLeft > 0
    /\ info[a].running
    /\ info' = [info EXCEPT ![a].running = FALSE, ![a].stoppedAt = now]
    /\ envLeft' = envLeft - 1
    /\ UNCHANGED <<sessVars, loaderFields, loadLocals, now, cfgTimeout, delivered,
                   loaderHist>>
    /\ UNCHANGED extVars

\* lines 365-375: the history is a map keyed by the time of the call
addErr(a, e) ==
    /\ crashed = "no" /\ envLeft > 0
    /\ info' = IF e = "nil" THEN info
               ELSE [info EXCEPT ![a].errs = (now :> e) @@ info[a].errs]
    /\ envLeft' = envLeft - 1
    /\ UNCHANGED <<sessVars, loaderFields, loadLocals, now, cfgTimeout, delivered,
                   loaderHist>>
    /\ UNCHANGED extVars

\* ----------------------------------------------------- loader: initial state
NewInfo == [running |-> FALSE, errs |-> <<>>, startedAt |-> Never, stoppedAt |-> Never]

\* Load() has not been called
NotLoaded ==
    /\ timeout = 0 /\ queue = {} /\ require = <<>> /\ idx = 0
    /\ ctxDeadline = Never /\ ctxErr = "nil" /\ nextTick = Never /\ tickPending = FALSE
    /\ todo = {} /\ loaded = 0 /\ reason = ErrInit
    /\ now = 0
    /\ info = [a \in Registered |-> NewInfo]
    /\ delivered = <<>>
    /\ lchCloses = 0 /\ closedAt = Never /\ lpath = "none"

\* no loader has been built
NoLoader ==
    /\ lpc = "none" /\ loading = FALSE /\ loaderCh = "nil" /\ loaderErrs = <<>>
    /\ hostaddr = "nil" /\ svcs = <<>>
    /\ NotLoaded

\* a Session after start(): see the action start
SessStarted ==
    /\ err = "nil"
    /\ ready = "open" /\ readyFunc = "set"
    /\ sig = "set" /\ sigErr = "nil" /\ sigRelease = "set"
    /\ evch = "open"
    /\ done = "open"
    /\ mu = 0
    /\ pc = [t \in Procs |-> "idle"]
    /\ arg = [t \in Procs |-> "nil"]
    /\ errWrites = 0 /\ gateCalls = 0 /\ readyCloses = 0 /\ sigCalls = 0
    /\ evchCloses = 0 /\ doneCloses = 0
    /\ firstSeen = "nil"
    /\ early = "none"
    /\ firstDestroy = NoSnap

(***************************************************************************)
(* Service and serviceContainer (service.go): one Service definition and   *)
(* the container the engine wraps it in.  cpc is the position of the       *)
(* engine goroutine that calls into the container.                         *)
(***************************************************************************)

\* the scopes and keys of events; "a" with "b.c" and "a.b" with "c" give the
\* same listener id
Scopes == {"a", "a.b"}
Keys == {"c", "b.c"}
Events == [scope : Scopes, key : Keys]
NoEvent == [scope |-> "-", key |-> "-"]

\* what a listener or a hook returns: no error, the error of listener h, the
\* error of a hook
NoErr == [from |-> "nil", h |-> 0]
ListenerErr(h) == [from |-> "listener", h |-> h]
HookErr(name) == [from |-> name, h |-> 0]

\* a Go map read: the zero value for a missing key
Get(m, k) == IF k \in DOMAIN m THEN m[k] ELSE <<>>

\* lines 84 and 495: the listener id of a scope and a key
Lid(scope, key) == scope \o "." \o key

\* the handlers registered so far, over all keys
RECURSIVE Registrations(_, _)
Registrations(m, ks) ==
    IF ks = {} THEN 0
    ELSE LET k == CHOOSE x \in ks : TRUE
         IN Len(m[k]) + Registrations(m, ks \ {k})

\* the container is at rest: no call into it is going on
AtRest == cpc \in {"idle", "returned"}

\* lines 365-375 on one ServiceInfo: the history is a map keyed by the time
\* of the call
InfoAddErr(i, e, t) ==
    IF e = NoErr THEN i ELSE [i EXCEPT !.errs = (t :> e) @@ i.errs]
\* lines 351-356
InfoStarted(i, t) == [i EXCEPT !.running = TRUE, !.startedAt = t]
\* lines 358-363
InfoStopped(i, t) == [i EXCEPT !.running = FALSE, !.stoppedAt = t]

\* lines 79-86: the handler is appended to the list of its listener id; the
\* n-th registration is handler n
OnEvent(scope, key) ==
    /\ crashed = "no" /\ cpc = "idle"
    /\ Registrations(listeners, DOMAIN listeners) < MaxHandlers
    /\ LET lid == Lid(scope, key)
           h == Registrations(listeners, DOMAIN listeners) + 1
       IN listeners' = (lid :> Append(Get(listeners, lid), h)) @@ listeners
    /\ UNCHANGED <<ev, cpc, hleft, hkey, hidx, calls, cinfo>>
    /\ UNCHANGED <<sessVars, loaderVars, lifeVars>>
    /\ UNCHANGED <<auxVars, moreVars>>

\* lines 89-94
OnAnyEvent ==
    /\ crashed = "no" /\ cpc = "idle"
    /\ Registrations(listeners, DOMAIN listeners) < MaxHandlers
    /\ LET h == Registrations(listeners, DOMAIN listeners) + 1
       IN listeners' = ("any" :> Append(Get(listeners, "any"), h)) @@ listeners
    /\ UNCHANGED <<ev, cpc, hleft, hkey, hidx, calls, cinfo>>
    /\ UNCHANGED <<sessVars, loaderVars, lifeVars>>
    /\ UNCHANGED <<auxVars, moreVars>>

\* lines 490-496: nothing to do without listeners; otherwise the range over
\* the map begins
handleEvent(e) ==
    /\ crashed = "no" /\ AtRest
    /\ ev' = e
    /\ calls' = <<>>
    /\ IF DOMAIN listeners = {}
       THEN cpc' = "returned" /\ hleft' = {}
       ELSE cpc' = "range" /\ hleft' = DOMAIN listeners
    /\ UNCHANGED <<listeners, hkey, hidx, cinfo>>
    /\ UNCHANGED <<sessVars, loaderVars, lifeVars>>
    /\ UNCHANGED <<auxVars, moreVars>>

\* line 496: the range takes the keys of the map in an order of its own
handleEventRange ==
    /\ crashed = "no" /\ cpc = "range"
    /\ IF hleft = {}
       THEN cpc' = "returned" /\ UNCHANGED <<hleft, hkey, hidx>>
       ELSE \E sk \in hleft :
               /\ hkey' = sk /\ hidx' = 1
               /\ hleft' = hleft \ {sk}
               /\ cpc' = "listeners"
    /\ UNCHANGED <<listeners, ev, calls, cinfo>>
    /\ UNCHANGED <<sessVars, loaderVars, lifeVars>>
    /\ UNCHANGED <<auxVars, moreVars>>

\* line 498: is a handler under key sk called for the event of id lid
MatchesAlways(sk, lid) == TRUE
Matches(sk, lid) == sk = "any" \/ sk = lid

\* lines 497-503: the next handler of the key; a handler that matches is
\* called, and the error it returns is added to the history
handleEventListener ==
    /\ crashed = "no" /\ cpc = "listeners"
    /\ IF hidx > Len(listeners[hkey])
       THEN cpc' = "range" /\ UNCHANGED <<hidx, calls, cinfo>>
       ELSE /\ hidx' = hidx + 1
            /\ UNCHANGED cpc
            /\ IF Matches(hkey, Lid(ev.scope, ev.key))
               THEN LET h == listeners[hkey][hidx]
                    IN \E r \in {NoErr, ListenerErr(h)} :
                          /\ calls' = Append(calls, [h |-> h, r |-> r])
                          /\ cinfo' = InfoAddErr(cinfo, r, now)
               ELSE UNCHANGED <<calls, cinfo>>
    /\ UNCHANGED <<listeners, ev, hleft, hkey>>
    /\ UNCHANGED <<sessVars, loaderVars, lifeVars>>
    /\ UNCHANGED <<auxVars, moreVars>>

\* the wall clock moves on between two steps of the container
ClockStep ==
    /\ crashed = "no"
    /\ now < TimeStep
    /\ now' = now + TimeStep
    /\ UNCHANGED <<sessVars, loaderFields, loadLocals, cfgTimeout, info, envLeft,
                   delivered, loaderHist>>
    /\ UNCHANGED extVars

\* lines 100-106: a container for a Service that has no listener yet
NoListeners ==
    /\ listeners = <<>> /\ ev = NoEvent
    /\ cpc = "idle" /\ hleft = {} /\ hkey = "-" /\ hidx = 0
    /\ calls = <<>>
    /\ cinfo = NewInfo

\* ------------------------------------------------ serviceContainer: start, stop
\* errors.Join, on errors held as lists: nil is the empty list
Join(a, b) == a \o b
\* what an Action hook returns when it is called
HookResults(name) == {NoErr, HookErr(name)}
\* the cause stop is called with
CauseErr == [from |-> "cause", h |-> 0]
\* an error as a list, nil being the empty one
AsList(e) == IF e = NoErr THEN <<>> ELSE <<e>>

\* lines 421-429 and 455-463: the event start and stop dispatch
ServiceEvent(key, i, e) ==
    [scope |-> "services", key |-> key,
     payload |-> [err |-> e, running |-> i.running,
                  at |-> IF key = "service.started" THEN i.startedAt ELSE i.stoppedAt]]

\* Session.Dispatch lines 147-153 with a non-nil event: the send on s.evch
\* completes when the engine receives; on a nil channel it blocks for ever,
\* on a closed channel it panics.
Send(e) ==
    /\ evch # "nil"
    /\ IF evch = "closed"
       THEN crashed' = "send on closed channel" /\ UNCHANGED delivered
       ELSE delivered' = Append(delivered, e) /\ UNCHANGED crashed

\* the engine calls start
startCall ==
    /\ crashed = "no" /\ AtRest
    /\ Len(delivered) < MaxCalls
    /\ cpc' = "start.hook"
    /\ op' = "start" /\ cpre' = cinfo
    /\ hres' = NoErr /\ lerr' = <<>> /\ ret' = <<>> /\ stopLog' = <<>>
    /\ UNCHANGED <<cinfo, evtVars, startAction, stopAction, cron, cronOn, cronJobs, cctx,
                   cause>>
    /\ UNCHANGED <<sessVars, loaderVars>>
    /\ UNCHANGED <<auxVars, moreVars>>

\* lines 403-405
startHook ==
    /\ crashed = "no" /\ cpc = "start.hook"
    /\ \E r \in IF startAction # "nil" THEN HookResults("start") ELSE {NoErr} :
          hres' = r /\ lerr' = AsList(r)
    /\ cpc' = "start.cron"
    /\ UNCHANGED <<cinfo, evtVars, startAction, stopAction, cron, cronOn, cronJobs, cctx,
                   cause, ret, op, cpre, stopLog>>
    /\ UNCHANGED <<sessVars, loaderVars>>
    /\ UNCHANGED <<auxVars, moreVars>>

\* context.Canceled, the cause of a context cancelled without one
CanceledErr == [from |-> "context.Canceled", h |-> 0]
\* a context: whether it is cancelled, and context.Cause of it
Ctx(state, c) == [state |-> state, cause |-> c]
\* context.WithCancelCause(parent): the child of a cancelled parent is
\* cancelled from the start, with the parent's cause
Derive(parent) ==
    IF parent.state = "cancelled" THEN parent ELSE Ctx("live", NoErr)
\* line 412: the parent of the container's new context, given the engine's
\* context and the context the container holds
StartParentOld(e, old) == old
StartParent(e, old) == e

\* lines 406-413 and Cron.Start lines 539-554: the scheduler runs, whatever
\* the hook returned; the container gets a new context
startCron ==
    /\ crashed = "no" /\ cpc = "start.cron"
    /\ cronOn' = IF cron # "nil" THEN TRUE ELSE cronOn
    /\ LET new == Derive(StartParent(Ctx(ectx, CanceledErr), Ctx(cctx, ccause)))
       IN  cctx' = new.state /\ ccause' = new.cause
    /\ pastCtx' = IF cctx = "nil" THEN pastCtx ELSE Append(pastCtx, Ctx(cctx, ccause))
    /\ cpc' = "start.info"
    /\ UNCHANGED <<hres, cinfo, evtVars, startAction, stopAction, cron, cronJobs, cause, lerr,
                   ret, op, cpre, stopLog>>
    /\ UNCHANGED <<sessVars, loaderVars>>
    /\ UNCHANGED <<auxVars, cronVars, infoVars, hookVars, ectx, lockVars, initVars, scanVars, probeVars, reloadVars>>

\* lines 415-419
startInfo ==
    /\ crashed = "no" /\ cpc = "start.info"
    /\ cinfo' = IF lerr = <<>> THEN InfoStarted(cinfo, now)
                ELSE InfoAddErr(cinfo, lerr[1], now)
    /\ cpc' = "start.dispatch"
    /\ UNCHANGED <<hres, evtVars, startAction, stopAction, cron, cronOn, cronJobs, cctx, cause,
                   lerr, ret, op, cpre, stopLog>>
    /\ UNCHANGED <<sessVars, loaderVars>>
    /\ UNCHANGED <<auxVars, moreVars>>

\* line 432: what start returns, given the error of the hook
StartReturnsErr(e) == e
StartReturns(e) == <<>>

\* lines 421-432
startDispatch ==
    /\ crashed = "no" /\ cpc = "start.dispatch"
    /\ Send(ServiceEvent("service.started", cinfo, lerr))
    /\ IF evch = "closed"
       THEN UNCHANGED <<cpc, ret>>
       ELSE cpc' = "returned" /\ ret' = StartReturns(lerr)
    /\ UNCHANGED <<hres, cinfo, evtVars, startAction, stopAction, cron, cronOn, cronJobs, cctx,
                   cause, lerr, op, cpre, stopLog>>
    /\ UNCHANGED <<sessFields, pc, arg, sessHist, loaderFields, loadLocals, now,
                   cfgTimeout, info, envLeft, loaderHist>>
    /\ UNCHANGED <<auxVars, moreVars>>

\* a step of stop, with the scheduler's jobs in flight when it is taken
Step(name) == [step |-> name, jobs |-> cronJobs, on |-> cronOn]

\* the engine calls stop with a cause, or with nil
stopCall(e) ==
    /\ crashed = "no" /\ AtRest
    /\ Len(delivered) < MaxCalls
    /\ cpc' = "stop.cron"
    /\ op' = "stop" /\ cpre' = cinfo
    /\ cause' = e
    /\ hres' = NoErr /\ lerr' = <<>> /\ ret' = <<>> /\ stopLog' = <<>>
    /\ UNCHANGED <<cinfo, evtVars, startAction, stopAction, cron, cronOn, cronJobs, cctx>>
    /\ UNCHANGED <<sessVars, loaderVars>>
    /\ UNCHANGED <<auxVars, moreVars>>

\* lines 439-442 and 557: the scheduler stops starting jobs
stopCron ==
    /\ crashed = "no" /\ cpc = "stop.cron"
    /\ IF cron # "nil"
       THEN cronOn' = FALSE /\ cpc' = "stop.wait"
       ELSE UNCHANGED cronOn /\ cpc' = "stop.cancel"
    /\ UNCHANGED <<hres, cinfo, evtVars, startAction, stopAction, cron, cronJobs, cctx, cause,
                   lerr, ret, op, cpre, stopLog>>
    /\ UNCHANGED <<sessVars, loaderVars>>
    /\ UNCHANGED <<auxVars, moreVars>>

\* line 558: the context of lib.Stop() is done when no job is in flight
CronNotAwaited == TRUE
CronDrained == cronJobs = 0

\* line 558: <-ctx.Done()
stopWait ==
    /\ crashed = "no" /\ cpc = "stop.wait"
    /\ CronDrained
    /\ stopLog' = Append(stopLog, Step("drained"))
    /\ cpc' = "stop.cancel"
    /\ UNCHANGED <<hres, cinfo, evtVars, startAction, stopAction, cron, cronOn, cronJobs, cctx,
                   cause, lerr, ret, op, cpre>>
    /\ UNCHANGED <<sessVars, loaderVars>>
    /\ UNCHANGED <<auxVars, moreVars>>

\* line 444: s.cancel is nil until start has run, and calling a nil func panics
\* the cause a CancelCauseFunc records when it is the first to cancel
CancelCauseDropped(e) == CanceledErr
CancelCause(e) == IF e = NoErr THEN CanceledErr ELSE e

stopCancel ==
    /\ crashed = "no" /\ cpc = "stop.cancel"
    /\ IF cctx = "nil"
       THEN /\ crashed' = "nil func call"
            /\ UNCHANGED <<cctx, ccause, cpc, stopLog>>
       ELSE /\ cctx' = "cancelled"
            /\ ccause' = IF cctx = "live" THEN CancelCause(cause) ELSE ccause
            /\ stopLog' = Append(stopLog, Step("cancel"))
            /\ cpc' = "stop.hook"
            /\ UNCHANGED crashed
    /\ UNCHANGED <<hres, cinfo, evtVars, startAction, stopAction, cron, cronOn, cronJobs, cause,
                   lerr, ret, op, cpre>>
    /\ UNCHANGED <<sessFields, pc, arg, sessHist, loaderVars>>
    /\ UNCHANGED <<auxVars, cronVars, infoVars, hookVars, ectx, pastCtx, lockVars, initVars, scanVars, probeVars, reloadVars>>

\* lines 445-451
stopHook ==
    /\ crashed = "no" /\ cpc = "stop.hook"
    /\ \E r \in IF stopAction # "nil" THEN HookResults("stop") ELSE {NoErr} :
          /\ hres' = r
          /\ lerr' = IF cause # NoErr THEN Join(AsList(r), AsList(cause)) ELSE AsList(r)
    /\ stopLog' = Append(stopLog, Step("hook"))
    /\ cpc' = "stop.info"
    /\ UNCHANGED <<cinfo, evtVars, startAction, stopAction, cron, cronOn, cronJobs, cctx,
                   cause, ret, op, cpre>>
    /\ UNCHANGED <<sessVars, loaderVars>>
    /\ UNCHANGED <<auxVars, moreVars>>

\* line 453
stopInfo ==
    /\ crashed = "no" /\ cpc = "stop.info"
    /\ cinfo' = InfoStopped(cinfo, now)
    /\ stopLog' = Append(stopLog, Step("stopped"))
    /\ cpc' = "stop.dispatch"
    /\ UNCHANGED <<hres, evtVars, startAction, stopAction, cron, cronOn, cronJobs, cctx, cause,
                   lerr, ret, op, cpre>>
    /\ UNCHANGED <<sessVars, loaderVars>>
    /\ UNCHANGED <<auxVars, moreVars>>

\* lines 455-466
stopDispatch ==
    /\ crashed = "no" /\ cpc = "stop.dispatch"
    /\ Send(ServiceEvent("service.stopped", cinfo, lerr))
    /\ IF evch = "closed"
       THEN UNCHANGED <<cpc, ret, stopLog>>
       ELSE /\ cpc' = "returned" /\ ret' = lerr
            /\ stopLog' = Append(stopLog, Step("return"))
    /\ UNCHANGED <<hres, cinfo, evtVars, startAction, stopAction, cron, cronOn, cronJobs, cctx,
                   cause, lerr, op, cpre>>
    /\ UNCHANGED <<sessFields, pc, arg, sessHist, loaderFields, loadLocals, now,
                   cfgTimeout, info, envLeft, loaderHist>>
    /\ UNCHANGED <<auxVars, moreVars>>

\* the scheduler starts a job of the Service
cronJobRun ==
    /\ crashed = "no"
    /\ cronOn /\ cronJobs < MaxJobs
    /\ cronJobs' = cronJobs + 1
    /\ UNCHANGED <<hres, cinfo, cpc, evtVars, startAction, stopAction, cron, cronOn, cctx, cause,
                   lerr, ret, op, cpre, stopLog>>
    /\ UNCHANGED <<sessVars, loaderVars>>
    /\ UNCHANGED <<auxVars, moreVars>>

\* a job returns
cronJobDone ==
    /\ crashed = "no"
    /\ cronJobs > 0
    /\ cronJobs' = cronJobs - 1
    /\ UNCHANGED <<hres, cinfo, cpc, evtVars, startAction, stopAction, cron, cronOn, cctx, cause,
                   lerr, ret, op, cpre, stopLog>>
    /\ UNCHANGED <<sessVars, loaderVars>>
    /\ UNCHANGED <<auxVars, moreVars>>

\* the container before the first call of start or stop
NeverCalled ==
    /\ cronOn = FALSE /\ cronJobs = 0 /\ cctx = "nil"
    /\ cause = NoErr /\ hres = NoErr /\ lerr = <<>> /\ ret = <<>>
    /\ op = "none" /\ cpre = NewInfo /\ stopLog = <<>>

\* a Service without hooks and without cron jobs, not started
NoHooks ==
    /\ startAction = "nil" /\ stopAction = "nil" /\ cron = "nil"
    /\ NeverCalled

\* lines 100-106: the container of a Service that sets nothing
NewContainer == NoListeners /\ NoHooks


\* ---------------------------------------------------------- Session.Dispatch
\* the nil Event
NilEvent == [scope |-> "nil", key |-> "nil"]
\* what a caller hands to Dispatch
DispatchArgs == Events \cup {NilEvent}

\* the capacity of s.evch: the channel is made without a buffer
EvchCap == 0

\* line 148: the event is dropped
DroppedNever(e) == FALSE
Dropped(e) == e = NilEvent

\* lines 147-151: a goroutine calls Dispatch; a nil event is logged and the
\* call returns, any other event is to be sent
Dispatch(e) ==
    /\ crashed = "no" /\ dpc \in {"idle", "returned"}
    /\ dcount < MaxDispatch
    /\ dcount' = dcount + 1
    /\ dev' = e
    /\ dpc' = IF Dropped(e) THEN "returned" ELSE "send"
    /\ UNCHANGED <<evbuf, dlog, l2pc, reason2, require2>>
    /\ UNCHANGED <<sessVars, loaderVars, cinfo, cpc, evtVars, lifeVars>>
    /\ UNCHANGED moreVars

\* line 152 without the engine: the send panics on a closed channel and
\* completes at once while the buffer has room
DispatchSend ==
    /\ crashed = "no" /\ dpc = "send"
    /\ \/ /\ evch = "closed"
          /\ crashed' = "send on closed channel"
          /\ UNCHANGED <<evbuf, dlog, dpc>>
       \/ /\ evch = "open" /\ Len(evbuf) < EvchCap
          /\ evbuf' = Append(evbuf, dev)
          /\ dlog' = Append(dlog, dev)
          /\ dpc' = "returned"
          /\ UNCHANGED crashed
    /\ UNCHANGED <<dev, dcount, l2pc, reason2, require2>>
    /\ UNCHANGED <<sessFields, pc, arg, sessHist, loaderVars, cinfo, cpc, evtVars, lifeVars>>
    /\ UNCHANGED moreVars

\* the engine receives from sess.events() (lines 168-173): the oldest event of
\* the buffer or, with the buffer empty, the event of a sender that waits at
\* line 152, whose Dispatch then returns
EngineReceive ==
    /\ crashed = "no" /\ evch = "open"
    /\ IF evbuf # <<>>
       THEN /\ delivered' = Append(delivered, Head(evbuf))
            /\ evbuf' = Tail(evbuf)
            /\ UNCHANGED <<dpc, dlog>>
       ELSE /\ dpc = "send"
            /\ delivered' = Append(delivered, dev)
            /\ dlog' = Append(dlog, dev)
            /\ dpc' = "returned"
            /\ UNCHANGED evbuf
    /\ UNCHANGED <<dev, dcount, l2pc, reason2, require2>>
    /\ UNCHANGED <<sessVars, loaderFields, loadLocals, now, cfgTimeout, info, envLeft,
                   loaderHist, cinfo, cpc, evtVars, lifeVars>>
    /\ UNCHANGED moreVars

\* no goroutine has called Dispatch
NoDispatch ==
    /\ dpc = "idle" /\ dev = NilEvent /\ evbuf = <<>> /\ dlog = <<>> /\ dcount = 0

\* --------------------------------- ServiceLoader.Load from a second goroutine
\* lines 175-203 in one piece: the outcome of the range loop over sl.svcs from
\* position i on, with queue q and require req
RECURSIVE Scan(_, _, _)
Scan(i, q, req) ==
    IF i > Len(svcs) THEN [ok |-> TRUE, reason |-> ErrInit, require |-> req]
    ELSE LET a == svcs[i]
         IN IF ~ServiceInfoKnown(a)
            THEN [ok |-> FALSE, reason |-> ErrRegistry(a), require |-> req]
            ELSE IF InQueue(a, q)
            THEN [ok |-> FALSE, reason |-> ErrDuplicate(a), require |-> req]
            ELSE IF info[a].running THEN Scan(i + 1, q, req)
            ELSE Scan(i + 1, q \cup {a}, Append(req, a))

\* lines 145-147: sl.loading is read without a lock
Load2Check ==
    /\ crashed = "no" /\ l2pc = "idle"
    /\ l2pc' = IF loading THEN "returned" ELSE "set"
    /\ UNCHANGED <<reason2, require2, dpc, dev, evbuf, dlog, dcount>>
    /\ UNCHANGED <<sessVars, loaderVars, cinfo, cpc, evtVars, lifeVars>>
    /\ UNCHANGED moreVars

\* lines 148-149: sl.loading is written without a lock
Load2Set ==
    /\ crashed = "no" /\ l2pc = "set"
    /\ loading' = TRUE
    /\ IF Len(loaderErrs) > 0
       THEN l2pc' = "cancel" /\ reason2' = ErrInit
       ELSE l2pc' = "scan" /\ UNCHANGED reason2
    /\ UNCHANGED <<require2, dpc, dev, evbuf, dlog, dcount>>
    /\ UNCHANGED <<sessVars, lpc, loaderCh, loaderErrs, hostaddr, svcs, loadLocals,
                   loaderEnv, loaderHist, cinfo, cpc, evtVars, lifeVars>>
    /\ UNCHANGED moreVars

\* lines 175-203
Load2Scan ==
    /\ crashed = "no" /\ l2pc = "scan"
    /\ LET r == Scan(1, {}, <<>>)
       IN IF r.ok
          THEN l2pc' = "dispatch" /\ require2' = r.require /\ UNCHANGED reason2
          ELSE l2pc' = "cancel" /\ reason2' = r.reason /\ UNCHANGED require2
    /\ UNCHANGED <<dpc, dev, evbuf, dlog, dcount>>
    /\ UNCHANGED <<sessVars, loaderVars, cinfo, cpc, evtVars, lifeVars>>
    /\ UNCHANGED moreVars

\* lines 205-209: the event is handed to the engine and a waiter of its own
\* is started, which polls as the first one does
Load2Dispatch ==
    /\ crashed = "no" /\ l2pc = "dispatch"
    /\ Send(StartServicesEvent(require2))
    /\ l2pc' = IF evch = "closed" THEN l2pc ELSE "waiter"
    /\ UNCHANGED <<reason2, require2, dpc, dev, evbuf, dlog, dcount>>
    /\ UNCHANGED <<sessFields, pc, arg, sessHist, loaderFields, loadLocals, now,
                   cfgTimeout, info, envLeft, loaderHist, cinfo, cpc, evtVars, lifeVars>>
    /\ UNCHANGED moreVars

\* lines 260-263
Load2Cancel ==
    /\ crashed = "no" /\ l2pc = "cancel"
    /\ loaderErrs' = Append(loaderErrs, reason2)
    /\ loading' = FALSE
    /\ l2pc' = "close"
    /\ UNCHANGED <<reason2, require2, dpc, dev, evbuf, dlog, dcount>>
    /\ UNCHANGED <<sessVars, lpc, loaderCh, hostaddr, svcs, loadLocals, loaderEnv,
                   loaderHist, cinfo, cpc, evtVars, lifeVars>>
    /\ UNCHANGED moreVars

\* line 264: the deferred close(sl.loaderCh), then Load returns the channel
Load2Close ==
    /\ crashed = "no" /\ l2pc = "close"
    /\ lchCloses' = lchCloses + 1
    /\ IF loaderCh = "closed"
       THEN /\ crashed' = "close of closed channel"
            /\ UNCHANGED <<loaderCh, l2pc, closedAt>>
       ELSE /\ loaderCh' = "closed"
            /\ closedAt' = now
            /\ l2pc' = "returned"
            /\ UNCHANGED crashed
    /\ UNCHANGED <<reason2, require2, dpc, dev, evbuf, dlog, dcount>>
    /\ UNCHANGED <<sessFields, pc, arg, sessHist, lpc, loading, loaderErrs, hostaddr,
                   svcs, loadLocals, loaderEnv, lpath, cinfo, cpc, evtVars, lifeVars>>
    /\ UNCHANGED moreVars

\* no second goroutine has called Load
NoLoad2 == l2pc = "idle" /\ reason2 = ErrInit /\ require2 = <<>>

\* ------------------------------------------------------------------- Cron
\* the scheduler library (robfig/cron): AddFunc gives a job the next entry id,
\* counted from 1, and returns id 0 with an error for an expression it cannot
\* parse; Entry(id) is the zero Entry, with a nil Job, for an id it does not
\* hold.

\* lines 526-537: Job registers the action and keeps the id AddFunc returned,
\* also when AddFunc failed
Job(ok) ==
    /\ crashed = "no" /\ kpc = "idle"
    /\ Len(jobIDs) < MaxCronJobs
    /\ libN' = IF ok THEN libN + 1 ELSE libN
    /\ jobIDs' = Append(jobIDs, IF ok THEN libN + 1 ELSE 0)
    /\ regOk' = Append(regOk, ok)
    /\ UNCHANGED <<startFlag, kpc, kidx, firstRuns, firstLog>>
    /\ UNCHANGED <<sessVars, loaderVars, cinfo, cpc, evtVars, lifeVars, auxVars, infoVars, restVars>>

\* lines 540-541
CronStart ==
    /\ crashed = "no" /\ kpc = "idle"
    /\ kpc' = IF startFlag THEN "start.loop" ELSE "start.lib"
    /\ kidx' = 1
    /\ UNCHANGED <<jobIDs, libN, regOk, startFlag, firstRuns, firstLog>>
    /\ UNCHANGED <<sessVars, loaderVars, cinfo, cpc, evtVars, lifeVars, auxVars, infoVars, restVars>>

\* line 547: job.Job != nil
HasJobAlways(id) == TRUE
HasJob(id) == id \in 1..libN

\* lines 541-550: one iteration of the range loop over cs.jobIDs; the job of
\* an entry the library holds is run in a goroutine of its own
CronStartRun ==
    /\ crashed = "no" /\ kpc = "start.loop"
    /\ IF kidx > Len(jobIDs)
       THEN kpc' = "start.lib" /\ UNCHANGED <<kidx, firstRuns, firstLog>>
       ELSE /\ kidx' = kidx + 1
            /\ UNCHANGED kpc
            /\ IF HasJob(jobIDs[kidx])
               THEN /\ firstRuns' = firstRuns + 1
                    /\ firstLog' = Append(firstLog, jobIDs[kidx])
               ELSE UNCHANGED <<firstRuns, firstLog>>
    /\ UNCHANGED <<jobIDs, libN, regOk, startFlag>>
    /\ UNCHANGED <<sessVars, loaderVars, cinfo, cpc, evtVars, lifeVars, auxVars, infoVars, restVars>>

\* lines 552-553: cs.lib.Start()
CronStartLib ==
    /\ crashed = "no" /\ kpc = "start.lib"
    /\ cronOn' = TRUE
    /\ kpc' = "started"
    /\ UNCHANGED <<jobIDs, libN, regOk, startFlag, kidx, firstRuns, firstLog>>
    /\ UNCHANGED <<startAction, stopAction, cron, cronJobs, cctx, cause, hres, lerr, ret,
                   op, cpre, stopLog>>
    /\ UNCHANGED <<sessVars, loaderVars, cinfo, cpc, evtVars, auxVars, infoVars, restVars>>

\* line 557: cs.lib.Stop() stops the timer loop
CronStop ==
    /\ crashed = "no" /\ kpc = "started"
    /\ cronOn' = FALSE
    /\ kpc' = "stop.wait"
    /\ UNCHANGED <<jobIDs, libN, regOk, startFlag, kidx, firstRuns, firstLog>>
    /\ UNCHANGED <<startAction, stopAction, cron, cronJobs, cctx, cause, hres, lerr, ret,
                   op, cpre, stopLog>>
    /\ UNCHANGED <<sessVars, loaderVars, cinfo, cpc, evtVars, auxVars, infoVars, restVars>>

\* lines 558-559: <-ctx.Done(); the library's context is done when the jobs
\* its timer loop started have returned
CronStopWait ==
    /\ crashed = "no" /\ kpc = "stop.wait"
    /\ CronDrained
    /\ kpc' = "stopped"
    /\ UNCHANGED <<jobIDs, libN, regOk, startFlag, kidx, firstRuns, firstLog>>
    /\ UNCHANGED <<sessVars, loaderVars, cinfo, cpc, evtVars, lifeVars, auxVars, infoVars, restVars>>

\* a job that Start launched returns
firstRunDone ==
    /\ crashed = "no"
    /\ firstRuns > 0
    /\ firstRuns' = firstRuns - 1
    /\ UNCHANGED <<jobIDs, libN, regOk, startFlag, kpc, kidx, firstLog>>
    /\ UNCHANGED <<sessVars, loaderVars, cinfo, cpc, evtVars, lifeVars, auxVars, infoVars, restVars>>

\* lines 517-524: newCron
NewCron ==
    /\ jobIDs = <<>> /\ libN = 0 /\ regOk = <<>>
    /\ kpc = "idle" /\ kidx = 0
    /\ firstRuns = 0 /\ firstLog = <<>>

\* no Cron is looked at
NoCron == NewCron /\ startFlag = FALSE

\* ------------------------------------------------------- ServiceInfo: lock
\* one goroutine of the container calls started, stopped and addErr; the
\* waiter of a loader polls Errs() and ranges over the map it got

\* the error the n-th call of addErr is handed
InfoErrs(n) == {NoErr, ListenerErr(n)}
InfoOps == {"started", "stopped", "addErr"}

\* lines 351-352, 358-359, 365-369: the call; addErr(nil) returns at once
infoCall(o, e) ==
    /\ crashed = "no" /\ wpc = "idle"
    /\ icalls < MaxInfoCalls
    /\ icalls' = icalls + 1
    /\ IF o = "addErr" /\ e = NoErr
       THEN UNCHANGED <<wpc, warg, passed>>
       ELSE /\ wpc' = "lock"
            /\ warg' = [o |-> o, e |-> e]
            /\ passed' = IF o = "addErr" THEN Append(passed, e) ELSE passed
    /\ UNCHANGED <<imu, rpc, rleft, rseen>>
    /\ UNCHANGED <<sessVars, loaderVars, cinfo, cpc, evtVars, lifeVars, auxVars, cronVars, restVars>>

\* s.mu.Lock()
infoLock ==
    /\ crashed = "no" /\ wpc = "lock"
    /\ ~imu.w /\ imu.r = 0
    /\ imu' = [imu EXCEPT !.w = TRUE]
    /\ wpc' = "write"
    /\ UNCHANGED <<warg, rpc, rleft, rseen, passed, icalls>>
    /\ UNCHANGED <<sessVars, loaderVars, cinfo, cpc, evtVars, lifeVars, auxVars, cronVars, restVars>>

\* lines 354-355, 361-362, 371-374 and the deferred Unlock. A write of the map
\* while another goroutine ranges over it is a data race: the runtime may stop
\* the program ("concurrent map iteration and map write"), and the range may
\* or may not produce the new entry
infoWrite ==
    /\ crashed = "no" /\ wpc = "write"
    /\ cinfo' = CASE warg.o = "started" -> InfoStarted(cinfo, now)
                  [] warg.o = "stopped" -> InfoStopped(cinfo, now)
                  [] OTHER -> InfoAddErr(cinfo, warg.e, now)
    /\ IF warg.o = "addErr" /\ rpc = "iter"
       THEN /\ crashed' \in {"no", "concurrent map iteration and map write"}
            /\ rleft' \in {rleft, rleft \cup {now}}
       ELSE UNCHANGED <<crashed, rleft>>
    /\ imu' = [imu EXCEPT !.w = FALSE]
    /\ wpc' = "idle"
    /\ UNCHANGED <<warg, rpc, rseen, passed, icalls>>
    /\ UNCHANGED <<sessFields, pc, arg, sessHist, loaderVars, cpc, evtVars, lifeVars, auxVars,
                   cronVars, restVars>>

\* line 346: s.mu.RLock() in Errs()
pollRLock ==
    /\ crashed = "no" /\ rpc = "idle"
    /\ ~imu.w
    /\ imu' = [imu EXCEPT !.r = @ + 1]
    /\ rpc' = "rlocked"
    /\ UNCHANGED <<wpc, warg, rleft, rseen, passed, icalls>>
    /\ UNCHANGED <<sessVars, loaderVars, cinfo, cpc, evtVars, lifeVars, auxVars, cronVars, restVars>>

\* lines 347-348 and 230: Errs() returns the map itself and releases the
\* lock; a nil map ends this visit of the status
pollErrs ==
    /\ crashed = "no" /\ rpc = "rlocked"
    /\ imu' = [imu EXCEPT !.r = @ - 1]
    /\ IF cinfo.errs = <<>>
       THEN rpc' = "idle" /\ UNCHANGED rleft
       ELSE rpc' = "iter" /\ rleft' = DOMAIN cinfo.errs
    /\ UNCHANGED <<wpc, warg, rseen, passed, icalls>>
    /\ UNCHANGED <<sessVars, loaderVars, cinfo, cpc, evtVars, lifeVars, auxVars, cronVars, restVars>>

\* lines 231-233: one iteration of the range over the map, in any order
pollRange ==
    /\ crashed = "no" /\ rpc = "iter"
    /\ IF rleft = {}
       THEN rpc' = "done" /\ UNCHANGED <<rleft, rseen>>
       ELSE \E t \in rleft :
              /\ rleft' = rleft \ {t}
              /\ rseen' = Append(rseen, cinfo.errs[t])
              /\ UNCHANGED rpc
    /\ UNCHANGED <<imu, wpc, warg, passed, icalls>>
    /\ UNCHANGED <<sessVars, loaderVars, cinfo, cpc, evtVars, lifeVars, auxVars, cronVars, restVars>>

\* line 340: Failed()
Failed(i) == i.errs # <<>>

\* a ServiceInfo nobody calls
NoInfoCalls ==
    /\ imu = [w |-> FALSE, r |-> 0]
    /\ wpc = "idle" /\ warg = [o |-> "started", e |-> NoErr]
    /\ rpc = "idle" /\ rleft = {} /\ rseen = <<>>
    /\ passed = <<>> /\ icalls = 0

\* ------------------------------------- serviceContainer: initialize, tick, tock
\* lines 388-391: whether initialize returns right after the hook
InitHaltsNever(r) == FALSE
InitHalts(r) == r # NoErr

\* lines 386-400: initialize
initialize ==
    /\ crashed = "no" /\ AtRest /\ op = "none"
    /\ op' = "initialize" /\ cpre' = cinfo
    /\ cpc' = "returned"
    /\ lerr' = <<>> /\ stopLog' = <<>>
    /\ \E r \in IF initializeAction # "nil" THEN HookResults("initialize") ELSE {NoErr} :
          /\ hres' = r
          /\ cinfo' = InfoAddErr(cinfo, r, now)
          /\ IF InitHalts(r)
             THEN /\ ret' = AsList(r)
                  /\ UNCHANGED <<cron, cronBuilt, setupCalls>>
             ELSE /\ ret' = <<>>
                  /\ IF cronsetup # "nil"
                     THEN /\ cron' = "set"
                          /\ cronBuilt' = cronBuilt + 1
                          /\ setupCalls' = setupCalls + 1
                     ELSE UNCHANGED <<cron, cronBuilt, setupCalls>>
    /\ UNCHANGED <<evtVars, startAction, stopAction, cronOn, cronJobs, cctx, cause>>
    /\ UNCHANGED <<sessVars, loaderVars, auxVars, cronVars, infoVars, hookVars, ctxVars,
                   lockVars, scanVars, probeVars, reloadVars>>

\* lines 476-481: tick
tick ==
    /\ crashed = "no" /\ AtRest
    /\ op' = "tick" /\ cpre' = cinfo
    /\ cpc' = "returned"
    /\ lerr' = <<>> /\ stopLog' = <<>>
    /\ \E r \in IF tickAction # "nil" THEN HookResults("tick") ELSE {NoErr} :
          hres' = r /\ ret' = AsList(r)
    /\ UNCHANGED <<cinfo, evtVars, startAction, stopAction, cron, cronOn, cronJobs, cctx,
                   cause>>
    /\ UNCHANGED <<sessVars, loaderVars, auxVars, cronVars, infoVars, restVars>>

\* lines 483-488: tock
tock ==
    /\ crashed = "no" /\ AtRest
    /\ op' = "tock" /\ cpre' = cinfo
    /\ cpc' = "returned"
    /\ lerr' = <<>> /\ stopLog' = <<>>
    /\ \E r \in IF tockAction # "nil" THEN HookResults("tock") ELSE {NoErr} :
          hres' = r /\ ret' = AsList(r)
    /\ UNCHANGED <<cinfo, evtVars, startAction, stopAction, cron, cronOn, cronJobs, cctx,
                   cause>>
    /\ UNCHANGED <<sessVars, loaderVars, auxVars, cronVars, infoVars, restVars>>

\* the engine's context is cancelled: the contexts derived from it that are
\* not cancelled yet are cancelled with its cause
CancelLive(c) == IF c.state = "live" THEN Ctx("cancelled", CanceledErr) ELSE c
engineCancel ==
    /\ crashed = "no" /\ ectx = "live"
    /\ ectx' = "cancelled"
    /\ cctx' = IF cctx = "live" THEN "cancelled" ELSE cctx
    /\ ccause' = IF cctx = "live" THEN CanceledErr ELSE ccause
    /\ pastCtx' = [i \in DOMAIN pastCtx |-> CancelLive(pastCtx[i])]
    /\ UNCHANGED <<startAction, stopAction, cron, cronOn, cronJobs, cause, hres, lerr, ret,
                   op, cpre, stopLog>>
    /\ UNCHANGED <<sessVars, loaderVars, cinfo, cpc, evtVars, auxVars, cronVars, infoVars,
                   hookVars, lockVars, initVars, scanVars, probeVars, reloadVars>>

\* no context derived yet, the engine's context live
NoCtx == ectx = "live" /\ ccause = NoErr /\ pastCtx = <<>>

\* no scan has looked at a target
NotScanned == seenRunning = <<>> /\ tickErrs = {} /\ tickSeen = {}

\* initialize has not been called
NotInitialized == cronBuilt = 0 /\ setupCalls = 0

\* a Service whose initialize, tick and tock hooks and cron setup are unset
NoMoreHooks ==
    /\ initializeAction = "nil" /\ tickAction = "nil" /\ tockAction = "nil"
    /\ cronsetup = "nil"

\* ------------------------------------------- locks, hooks and channel operations
\* each operation as the sequence of its lock operations, its calls of user
\* hooks, its channel sends and receives, and its calls of library functions,
\* in the order of the source
Locks == {"session", "info", "container"}
Lock(l) == [k |-> "lock", l |-> l]
Unlock(l) == [k |-> "unlock", l |-> l]
RLock(l) == [k |-> "rlock", l |-> l]
RUnlock(l) == [k |-> "runlock", l |-> l]
Hook == [k |-> "hook", l |-> "-"]
ChanSend == [k |-> "send", l |-> "-"]
ChanRecv == [k |-> "recv", l |-> "-"]
LibCall == [k |-> "call", l |-> "-"]

\* a ServiceInfo accessor (lines 309-349) and a ServiceInfo writer (351-375)
InfoRead == <<RLock("info"), RUnlock("info")>>
InfoWriteOp == <<Lock("info"), Unlock("info")>>

\* Session.Dispatch lines 147-153, with the send inside the Session lock
DispatchTraceLocked == <<RLock("session"), ChanSend, RUnlock("session")>>
\* Session.Dispatch lines 147-153
DispatchTrace == <<ChanSend>>

\* Session.Destroy lines 54-89: Err(), the first critical section with the
\* call of readyFunc, sigRelease, the second critical section with the closes
DestroyTrace ==
    <<RLock("session"), RUnlock("session"),
      Lock("session"), LibCall, Unlock("session"),
      LibCall,
      Lock("session"), LibCall, Unlock("session")>>

\* serviceContainer.start lines 402-433
StartTrace ==
    <<Hook, Lock("container"), LibCall, Unlock("container")>>
    \o InfoWriteOp \o InfoRead \o InfoRead \o InfoRead \o InfoRead
    \o DispatchTrace \o InfoRead

\* serviceContainer.stop lines 435-467, with a cron and a cause
StopTrace ==
    InfoRead \o InfoRead \o <<ChanRecv, LibCall, Hook>>
    \o InfoWriteOp \o InfoRead \o InfoRead \o InfoRead \o InfoRead
    \o DispatchTrace \o InfoRead

Programs ==
    [ Ready |-> <<RLock("session"), LibCall, RUnlock("session"), ChanRecv>>,
      Err |-> <<RLock("session"), RUnlock("session")>>,
      Destroy |-> DestroyTrace,
      DestroyAgain |-> <<RLock("session"), RUnlock("session")>>,
      Done |-> <<Lock("session"), Unlock("session"), ChanRecv>>,
      Dispatch |-> DispatchTrace,
      setReady |-> <<Lock("session"), LibCall, Unlock("session")>>,
      events |-> <<RLock("session"), RUnlock("session"), ChanRecv>>,
      initialize |-> <<Hook, Hook>> \o InfoRead,
      initializeErr |-> <<Hook>> \o InfoWriteOp,
      start |-> StartTrace,
      stop |-> StopTrace,
      containerDone |-> <<Lock("container"), LibCall, Unlock("container"), ChanRecv>>,
      tick |-> <<Hook>>,
      tock |-> <<Hook>>,
      handleEvent |-> <<Hook>> \o InfoWriteOp \o InfoRead \o <<Hook>>,
      cronJob |-> <<Hook>>,
      waiterPoll |-> <<ChanRecv>> \o InfoRead \o InfoRead ]

ProgramNames == DOMAIN Programs
Threads == 1..LockThreads

\* the locks a thread holds
Held(t) == {l \in Locks : lw[l] = t \/ t \in lr[l]}
\* the operation a thread is about to perform
NextOp(t) == Programs[lop[t]][lidx[t]]
InOp(t) == lop[t] # "idle"

\* a thread moves past the operation it has performed
Advance(t) ==
    IF lidx[t] = Len(Programs[lop[t]])
    THEN /\ lop' = [lop EXCEPT ![t] = "idle"]
         /\ lidx' = [lidx EXCEPT ![t] = 0]
    ELSE /\ lidx' = [lidx EXCEPT ![t] = @ + 1]
         /\ UNCHANGED lop

\* a goroutine calls an operation
threadCall(t, name) ==
    /\ crashed = "no" /\ ~InOp(t)
    /\ lop' = [lop EXCEPT ![t] = name]
    /\ lidx' = [lidx EXCEPT ![t] = 1]
    /\ UNCHANGED <<lw, lr>>
    /\ UNCHANGED <<sessVars, loaderVars, cinfo, cpc, evtVars, lifeVars, auxVars, cronVars,
                   infoVars, hookVars, ctxVars, initVars, scanVars, probeVars, reloadVars>>

\* mu.Lock(): waits until no writer and no reader is inside
threadLock(t) ==
    /\ crashed = "no" /\ InOp(t) /\ NextOp(t).k = "lock"
    /\ lw[NextOp(t).l] = 0 /\ lr[NextOp(t).l] = {}
    /\ lw' = [lw EXCEPT ![NextOp(t).l] = t]
    /\ Advance(t)
    /\ UNCHANGED lr
    /\ UNCHANGED <<sessVars, loaderVars, cinfo, cpc, evtVars, lifeVars, auxVars, cronVars,
                   infoVars, hookVars, ctxVars, initVars, scanVars, probeVars, reloadVars>>

\* mu.RLock(): waits until no writer is inside
threadRLock(t) ==
    /\ crashed = "no" /\ InOp(t) /\ NextOp(t).k = "rlock"
    /\ lw[NextOp(t).l] = 0
    /\ lr' = [lr EXCEPT ![NextOp(t).l] = @ \cup {t}]
    /\ Advance(t)
    /\ UNCHANGED lw
    /\ UNCHANGED <<sessVars, loaderVars, cinfo, cpc, evtVars, lifeVars, auxVars, cronVars,
                   infoVars, hookVars, ctxVars, initVars, scanVars, probeVars, reloadVars>>

\* mu.Unlock() and mu.RUnlock()
threadUnlock(t) ==
    /\ crashed = "no" /\ InOp(t) /\ NextOp(t).k \in {"unlock", "runlock"}
    /\ IF NextOp(t).k = "unlock"
       THEN lw' = [lw EXCEPT ![NextOp(t).l] = 0] /\ UNCHANGED lr
       ELSE lr' = [lr EXCEPT ![NextOp(t).l] = @ \ {t}] /\ UNCHANGED lw
    /\ Advance(t)
    /\ UNCHANGED <<sessVars, loaderVars, cinfo, cpc, evtVars, lifeVars, auxVars, cronVars,
                   infoVars, hookVars, ctxVars, initVars, scanVars, probeVars, reloadVars>>

\* a user hook runs and returns; it calls Session.Err() and
\* ServiceInfo.Running(), which wait while a writer is inside
threadHook(t) ==
    /\ crashed = "no" /\ InOp(t) /\ NextOp(t).k = "hook"
    /\ lw["session"] = 0 /\ lw["info"] = 0
    /\ Advance(t)
    /\ UNCHANGED <<lw, lr>>
    /\ UNCHANGED <<sessVars, loaderVars, cinfo, cpc, evtVars, lifeVars, auxVars, cronVars,
                   infoVars, hookVars, ctxVars, initVars, scanVars, probeVars, reloadVars>>

\* a channel send or receive completes, or a library function returns
threadPass(t) ==
    /\ crashed = "no" /\ InOp(t) /\ NextOp(t).k \in {"send", "recv", "call"}
    /\ Advance(t)
    /\ UNCHANGED <<lw, lr>>
    /\ UNCHANGED <<sessVars, loaderVars, cinfo, cpc, evtVars, lifeVars, auxVars, cronVars,
                   infoVars, hookVars, ctxVars, initVars, scanVars, probeVars, reloadVars>>

\* no goroutine is inside an operation
NoThreads ==
    /\ lop = [t \in Threads |-> "idle"]
    /\ lidx = [t \in Threads |-> 0]
    /\ lw = [l \in Locks |-> 0]
    /\ lr = [l \in Locks |-> {}]

\* ------------------------------------------------------ specifications
DestroyStep(t) ==
    \/ DestroyCheck(t) \/ DestroySetErr(t) \/ DestroyReadyFunc(t) \/ DestroyUnlock1(t)
    \/ DestroySigCheck(t) \/ DestroySigCall(t) \/ DestroySigNil(t)
    \/ DestroyCloseEvch(t) \/ DestroyCloseDone(t)

SessCall ==
    \/ start
    \/ Err
    \/ Done
    \/ setReady
    \/ OsSignal
    \/ \E t \in Procs : \E e \in DestroyArgs : DestroyCall(t, e)
    \/ \E t \in Procs : \E k \in ValueKeys : Value(t, k)

SessNext ==
    \/ SessCall
    \/ \E t \in Procs : DestroyStep(t)

\* calls made one after the other: a call starts only when no other is running
SeqNext ==
    \/ AllIdle /\ SessCall
    \/ \E t \in Procs : DestroyStep(t)

\* the Session alone: no loader, no service events
Init ==
    /\ SessInit
    /\ NoLoader /\ cfgTimeout = 0 /\ envLeft = 0
    /\ NewContainer
    /\ NoDispatch /\ NoLoad2
    /\ NoCron
    /\ NoInfoCalls
    /\ NoMoreHooks
    /\ NoCtx
    /\ NoThreads
    /\ NotInitialized
    /\ NotScanned
    /\ NotProbed
    /\ NotReloaded
Next == SessNext

\* goroutines calling into one Session concurrently
Spec == Init /\ [][Next]_vars
\* the same calls, made sequentially
SeqSpec == Init /\ [][SeqNext]_vars

\* one Load() request on a started Session, with the services changing state,
\* the clock running and one goroutine that may destroy the Session
LoaderInit ==
    /\ SessStarted
    /\ \E in \in CtorInputs : NewServiceLoader(in)
    /\ NotLoaded
    /\ cfgTimeout \in TimeoutOptions
    /\ envLeft = MaxEnvEvents
    /\ NewContainer
    /\ NoDispatch /\ NoLoad2
    /\ NoCron
    /\ NoInfoCalls
    /\ NoMoreHooks
    /\ NoCtx
    /\ NoThreads
    /\ NotInitialized
    /\ NotScanned
    /\ NotProbed
    /\ NotReloaded

\* the run that is observed ends when the Load() request has ended
Running == lpc # "finished"

LoaderNext ==
    \/ Load
    \/ LoadScan
    \/ LoadDispatch
    \/ LoadCtx
    \/ ctxTimer
    \/ ctxParentDone
    \/ WaiterStart
    \/ WaiterCtxDone
    \/ WaiterTick
    \/ WaiterExpire
    \/ WaiterPoll
    \/ loaderCancel
    \/ loaderDone
    \/ CloseLoaderCh
    \/ Tick
    \/ \E a \in Targets : Running /\ started(a)
    \/ \E a \in Targets : Running /\ stopped(a)
    \/ \E a \in Targets : \E e \in SvcErrs : Running /\ addErr(a, e)
    \/ Running /\ err = "nil" /\ DestroyCall(1, "e1")
    \/ DestroyStep(1)

\* the goroutine of Load() and its waiter
LoaderStep ==
    \/ Load \/ LoadScan \/ LoadDispatch \/ LoadCtx
    \/ WaiterStart \/ WaiterCtxDone \/ WaiterTick \/ WaiterExpire \/ WaiterPoll
    \/ loaderCancel \/ loaderDone \/ CloseLoaderCh

\* what the scheduler, the clock and the timers do on their own
Progress == LoaderStep \/ DestroyStep(1) \/ Tick \/ ctxTimer \/ ctxParentDone

\* the program does not stop while a goroutine can run, the clock can advance
\* or a timer is due
LoaderSpec == LoaderInit /\ [][LoaderNext]_vars /\ WF_vars(Progress)

\* LoadDispatch on an open channel is a hand-off: it takes the engine to
\* receive from s.evch (on a closed channel the send panics by itself).
\* What the loader, the scheduler, the clock and the timers do without it:
ProgressAlone ==
    \/ Load \/ LoadScan \/ LoadCtx
    \/ (evch = "closed" /\ LoadDispatch)
    \/ WaiterStart \/ WaiterCtxDone \/ WaiterTick \/ WaiterExpire \/ WaiterPoll
    \/ loaderCancel \/ loaderDone \/ CloseLoaderCh
    \/ DestroyStep(1) \/ Tick \/ ctxTimer \/ ctxParentDone

\* the same program when Load() is called a second time after the first
\* request ended, the services changing state in between
ReloadNext ==
    \/ LoaderNext
    \/ LoadAgain
    \/ \E a \in Targets : ~Running /\ again = "no" /\ started(a)
    \/ \E a \in Targets : ~Running /\ again = "no" /\ stopped(a)

ReloadSpec == LoaderInit /\ [][ReloadNext]_vars /\ WF_vars(Progress)

\* the same program with an engine that is free not to receive
EngineFreeSpec == LoaderInit /\ [][LoaderNext]_vars /\ WF_vars(ProgressAlone)

EventInit ==
    /\ SessStarted /\ crashed = "no"
    /\ NoLoader /\ cfgTimeout = 0 /\ envLeft = 0
    /\ NewContainer
    /\ NoDispatch /\ NoLoad2
    /\ NoCron
    /\ NoInfoCalls
    /\ NoMoreHooks
    /\ NoCtx
    /\ NoThreads
    /\ NotInitialized
    /\ NotScanned
    /\ NotProbed
    /\ NotReloaded

EventNext ==
    \/ \E s \in Scopes, k \in Keys : OnEvent(s, k)
    \/ OnAnyEvent
    \/ \E e \in Events : handleEvent(e)
    \/ handleEventRange
    \/ handleEventListener
    \/ ClockStep

\* a Service that registers listeners, and the engine handing events to it
EventSpec == EventInit /\ [][EventNext]_vars

LifeInit ==
    /\ SessStarted /\ crashed = "no"
    /\ NoLoader /\ cfgTimeout = 0 /\ envLeft = 0
    /\ NoListeners
    /\ startAction \in {"nil", "set"}
    /\ stopAction \in {"nil", "set"}
    /\ cron \in {"nil", "set"}
    /\ NeverCalled
    /\ NoDispatch /\ NoLoad2
    /\ NoCron
    /\ NoInfoCalls
    /\ NoMoreHooks
    /\ NoCtx
    /\ NoThreads
    /\ NotInitialized
    /\ NotScanned
    /\ NotProbed
    /\ NotReloaded

LifeNext ==
    \/ startCall
    \/ startHook
    \/ startCron
    \/ startInfo
    \/ startDispatch
    \/ \E e \in {NoErr, CauseErr} : stopCall(e)
    \/ stopCron
    \/ stopWait
    \/ stopCancel
    \/ stopHook
    \/ stopInfo
    \/ stopDispatch
    \/ cronJobRun
    \/ cronJobDone
    \/ ClockStep

\* the engine starting and stopping one container, with the cron scheduler
\* running the jobs of the Service
LifeSpec == LifeInit /\ [][LifeNext]_vars

DispatchInit ==
    /\ SessStarted /\ crashed = "no"
    /\ NoLoader /\ cfgTimeout = 0 /\ envLeft = 0
    /\ NewContainer
    /\ NoDispatch /\ NoLoad2
    /\ NoCron
    /\ NoInfoCalls
    /\ NoMoreHooks
    /\ NoCtx
    /\ NoThreads
    /\ NotInitialized
    /\ NotScanned
    /\ NotProbed
    /\ NotReloaded

DispatchNext ==
    \/ \E e \in DispatchArgs : Dispatch(e)
    \/ DispatchSend
    \/ EngineReceive
    \/ err = "nil" /\ DestroyCall(1, "e1")
    \/ DestroyStep(1)

\* one goroutine dispatching events, the engine receiving them, and one
\* goroutine that may destroy the Session
DispatchSpec == DispatchInit /\ [][DispatchNext]_vars

\* a second goroutine calls Load() before the first call has read sl.loading,
\* or while sl.loading is set; the first call is made before the second has
\* returned
CoalesceNext ==
    \/ l2pc # "returned" /\ Load
    \/ LoadScan
    \/ LoadDispatch
    \/ LoadCtx
    \/ ctxTimer
    \/ WaiterStart
    \/ WaiterCtxDone
    \/ WaiterTick
    \/ WaiterExpire
    \/ WaiterPoll
    \/ loaderCancel
    \/ loaderDone
    \/ CloseLoaderCh
    \/ Tick
    \/ (lpc = "new" \/ loading) /\ Load2Check
    \/ Load2Set
    \/ Load2Scan
    \/ Load2Dispatch
    \/ Load2Cancel
    \/ Load2Close

\* two goroutines calling Load() on one ServiceLoader
CoalesceSpec == LoaderInit /\ [][CoalesceNext]_vars

\* what option app.service.loader.timeout may hold (ms): negative, zero (also
\* what an unset key reads as), positive
ConfiguredTimeouts == {0 - 1, 0, 100}

\* a loader with no target or with the one target "a", which no one starts
PendingInit ==
    /\ SessStarted
    /\ \E n \in {<<>>, <<"a">>} : NewServiceLoader([host |-> TRUE, names |-> n])
    /\ NotLoaded
    /\ cfgTimeout \in ConfiguredTimeouts
    /\ envLeft = 0
    /\ NewContainer
    /\ NoDispatch /\ NoLoad2
    /\ NoCron
    /\ NoInfoCalls
    /\ NoMoreHooks
    /\ NoCtx
    /\ NoThreads
    /\ NotInitialized
    /\ NotScanned
    /\ NotProbed
    /\ NotReloaded

PendingNext ==
    \/ Load
    \/ LoadScan
    \/ LoadDispatch
    \/ LoadCtx
    \/ ctxTimer
    \/ WaiterStart
    \/ WaiterCtxDone
    \/ WaiterTick
    \/ WaiterExpire
    \/ WaiterPoll
    \/ loaderCancel
    \/ loaderDone
    \/ CloseLoaderCh
    \/ Tick

\* one Load() request whose target stays pending, under every timeout option
PendingSpec == PendingInit /\ [][PendingNext]_vars /\ WF_vars(Progress)

CronInit ==
    /\ SessStarted /\ crashed = "no"
    /\ NoLoader /\ cfgTimeout = 0 /\ envLeft = 0
    /\ NoListeners
    /\ startAction = "nil" /\ stopAction = "nil" /\ cron = "set"
    /\ NeverCalled
    /\ NoDispatch /\ NoLoad2
    /\ NewCron /\ startFlag \in BOOLEAN
    /\ NoInfoCalls
    /\ NoMoreHooks
    /\ NoCtx
    /\ NoThreads
    /\ NotInitialized
    /\ NotScanned
    /\ NotProbed
    /\ NotReloaded

CronNext ==
    \/ \E ok \in BOOLEAN : Job(ok)
    \/ CronStart
    \/ CronStartRun
    \/ CronStartLib
    \/ CronStop
    \/ CronStopWait
    \/ firstRunDone
    \/ cronJobRun
    \/ cronJobDone

HookInit ==
    /\ SessStarted /\ crashed = "no"
    /\ NoLoader /\ cfgTimeout = 0 /\ envLeft = 0
    /\ NoListeners
    /\ startAction \in {"nil", "set"}
    /\ stopAction \in {"nil", "set"}
    /\ cron = "nil"
    /\ NeverCalled
    /\ NoDispatch /\ NoLoad2
    /\ NoCron
    /\ NoInfoCalls
    /\ initializeAction \in {"nil", "set"}
    /\ tickAction \in {"nil", "set"}
    /\ tockAction \in {"nil", "set"}
    /\ cronsetup \in {"nil", "set"}
    /\ NoCtx
    /\ NoThreads
    /\ NotInitialized
    /\ NotScanned
    /\ NotProbed
    /\ NotReloaded

HookNext ==
    \/ initialize
    \/ tick
    \/ tock
    \/ LifeNext

\* the engine driving one container through initialize, start, tick, tock
\* and stop
HookSpec == HookInit /\ [][HookNext]_vars

CtxInit ==
    /\ HookInit
    /\ tickAction = "nil" /\ tockAction = "nil"

CtxNext ==
    \/ initialize
    \/ LifeNext
    \/ engineCancel

\* the engine initializing, starting, stopping and restarting one container,
\* and cancelling its own context
CtxSpec == CtxInit /\ [][CtxNext]_vars

InfoInit ==
    /\ SessStarted /\ crashed = "no"
    /\ NoLoader /\ cfgTimeout = 0 /\ envLeft = 0
    /\ NewContainer
    /\ NoDispatch /\ NoLoad2
    /\ NoCron
    /\ NoInfoCalls
    /\ NoMoreHooks
    /\ NoCtx
    /\ NoThreads
    /\ NotInitialized
    /\ NotScanned
    /\ NotProbed
    /\ NotReloaded

InfoNext ==
    \/ \E o \in InfoOps : \E e \in InfoErrs(icalls + 1) : infoCall(o, e)
    \/ infoLock
    \/ infoWrite
    \/ pollRLock
    \/ pollErrs
    \/ pollRange
    \/ ClockStep

\* one ServiceInfo, written by its container and polled by a loader
InfoSpec == InfoInit /\ [][InfoNext]_vars

LockInit == InfoInit

LockNext ==
    \/ \E t \in Threads, name \in ProgramNames : threadCall(t, name)
    \/ \E t \in Threads : threadLock(t)
    \/ \E t \in Threads : threadRLock(t)
    \/ \E t \in Threads : threadUnlock(t)
    \/ \E t \in Threads : threadHook(t)
    \/ \E t \in Threads : threadPass(t)

\* goroutines calling the operations of one Session, one container and one
\* loader side by side
LockSpec == LockInit /\ [][LockNext]_vars

\* the cron setup of a Service registers jobs, then the Cron is started and
\* stopped while the jobs run
CronSpec == CronInit /\ [][CronNext]_vars

\* ------------------------------------------------------------ Session claims

\* C1: Destroy is idempotent when called sequentially: once a first
\* Destroy(e1) has run to its end, Err() is what that single call yields
\* (e1, or ErrSessionDestroyed for a nil e1) and no later Destroy(e2) writes
\* the error, releases a gate or closes a channel again.
C1_DestroyIdempotent == firstDestroy.set => DestroyEffects = firstDestroy

\* a Destroy(e2) has returned after a full Destroy(e1), e1 # e2
C1_Witness ==
    /\ AllIdle
    /\ firstDestroy.set /\ firstDestroy.err = "e1"
    /\ early = "e2"

\* C2: the Session error is write-once under concurrency: once an Err() call
\* has returned a non-nil error, every later Err() call returns that error.
C2_ErrWriteOnce == (firstSeen # "nil" /\ ErrReadable) => err = firstSeen

\* C3: over all interleavings of Destroy calls (explicit or made by the Value
\* probe) the event channel and the done channel are each closed at most once.
C3_ClosedAtMostOnce == evchCloses <= 1 /\ doneCloses <= 1

\* C4: termination is total: whenever an observer can read a non-nil Err(),
\* the readiness gate and the signal cancellation have been released and the
\* event channel and any allocated done channel are closed.
C4_TerminationTotal ==
    (err # "nil" /\ ErrReadable) =>
        /\ ready # "open"
        /\ (sig = "set" => sigErr # "nil")
        /\ evch # "open"
        /\ done # "open"

\* C5: after Destroy(e) has returned on a live Session, Err() is e (or
\* ErrSessionDestroyed for a nil e) and the Ready() signal is fired; Err() is
\* never observed nil after Destroy's write; the Ready() signal fires at most
\* once whatever setReady and Destroy calls are made.
C5_AfterDestroy ==
    /\ firstDestroy.set =>
          /\ ErrReadable => err = firstDestroy.err
          /\ ready # "open"
    /\ (errWrites > 0 /\ ErrReadable) => err # "nil"
    /\ readyCloses <= 1

\* ------------------------------------------------------ ServiceLoader claims
Range(f) == {f[i] : i \in DOMAIN f}
\* the signal returned by Load() is closed
Closed == lpc = "finished"
\* the request got as far as the waiter: the targets were queued and polled
Polled == lpath \in {"success", "failfast", "ctx"}
Recorded(a) == DOMAIN info[a].errs # {}
NeverRan(a) == info[a].startedAt = Never
\* a reached Running before the deadline and stayed so
RanInTime(a) ==
    /\ info[a].running /\ info[a].stoppedAt = Never
    /\ info[a].startedAt < ctxDeadline
SessionAlive == err = "nil"

\* C6: when targets are queued and every one of them reaches Running before
\* the timeout elapses (no target records an error or stops, the Session
\* lives), the signal of Load() closes with Err() nil.
C6_AllRunningNoError ==
    (Closed /\ Polled /\ SessionAlive /\ queue # {}
        /\ \A a \in queue : RanInTime(a) /\ ~Recorded(a))
    => LoaderErr = <<>>

\* C7: when a queued target records an error before the deadline (and while
\* the load is still going on) without ever reaching Running, the load is
\* aborted no later than the timeout elapses and Err() holds the fail-fast
\* error naming that target and the target's recorded errors.
C7_FailFast ==
    \A a \in queue :
        (Closed /\ Polled /\ SessionAlive /\ NeverRan(a)
            /\ \E t \in DOMAIN info[a].errs : t < ctxDeadline /\ t < closedAt)
        => /\ closedAt <= ctxDeadline
           /\ ErrFailed(a) \in Range(LoaderErr)
           /\ \A t \in DOMAIN info[a].errs :
                  Er("svc", a, info[a].errs[t]) \in Range(LoaderErr)

\* C8 as stated: when a queued target never reaches Running and never records
\* an error, the signal does not close before the timeout, and Err() holds a
\* "did not load on time" error for each target that never ran, and the
\* waiter context's error last.
C8_StalledTimesOut ==
    \A a \in queue :
        (Closed /\ Polled /\ NeverRan(a) /\ ~Recorded(a))
        => /\ closedAt >= ctxDeadline
           /\ \A b \in queue : NeverRan(b) => ErrLate(b) \in Range(LoaderErr)
           /\ LoaderErr # <<>>
           /\ LoaderErr[Len(LoaderErr)] = ErrCtx(ctxErr)

\* the final state of a stalled load
C8_TimedOut ==
    (Closed /\ Polled /\ SessionAlive
        /\ (\A b \in queue : ~Recorded(b))
        /\ (\E a \in queue : NeverRan(a)))
    => /\ closedAt >= ctxDeadline /\ closedAt < ctxDeadline + TimeStep
       /\ LoaderErr # <<>>
       /\ LoaderErr[Len(LoaderErr)] = ErrCtx(DeadlineExceeded)
       /\ \A i \in 1..(Len(LoaderErr) - 1) :
              /\ \E b \in queue : LoaderErr[i] = ErrLate(b) /\ ~RanInTime(b)
              /\ \A j \in 1..(Len(LoaderErr) - 1) : LoaderErr[i] = LoaderErr[j] => i = j
       /\ \A b \in queue : NeverRan(b) => ErrLate(b) \in Range(LoaderErr)

\* C8, amended: when no queued target records an error, the Session is not
\* destroyed and some queued target never reaches Running, the signal does
\* not close before the timeout and closes when it elapses (within one clock
\* grain); Err() is then one "did not load on time" error for each queued
\* target not running when the waiter visits it (every target that never ran,
\* no target that ran in time), followed by the context's deadline error.
C8_StalledAmended ==
    /\ []C8_TimedOut
    /\ (lpc = "select") ~> Closed

\* a load of two targets times out: one never ran, the other ran in time
C8_Witness ==
    /\ Closed /\ lpath = "ctx" /\ SessionAlive
    /\ \A b \in queue : ~Recorded(b)
    /\ \E a, b \in queue : NeverRan(a) /\ RanInTime(b)
    /\ Len(LoaderErr) = 2

\* C9: when the constructor's targets hold the same resolved address twice,
\* whatever the status of that service, no start.services event is dispatched
\* and Load() closes its signal with a "duplicated service request" error.
C9_DuplicateRejected ==
    \A i, j \in 1..Len(svcs) :
        (i < j /\ svcs[i] = svcs[j])
        => /\ delivered = <<>>
           /\ Closed => ErrDuplicate(svcs[i]) \in Range(LoaderErr)

\* the paths of a Load() request
LoadPaths == {"init", "registry", "duplicate", "failfast", "ctx", "success"}

C10_Once ==
    /\ lchCloses <= 1
    /\ lpath # "none" => lpath \in LoadPaths /\ ~loading /\ lpc \in {"close", "finished"}
    /\ Closed => lchCloses = 1 /\ loaderCh = "closed" /\ ~loading /\ lpath # "none"
    /\ lchCloses = 1 => Closed

\* C10: on every path of one Load() request (construction errors, registry
\* error, duplicate, fail-fast, timeout or cancellation, success) the
\* notification channel is closed exactly once, never twice and, unless the
\* process has panicked in Dispatch, never zero times, and the loading flag
\* is false afterwards.
C10_ClosedExactlyOnce ==
    /\ []C10_Once
    /\ loading ~> (Closed \/ crashed # "no")

\* the load was cancelled by the Session's destruction and closed its signal
C10_Witness ==
    /\ Closed /\ lpath = "ctx" /\ ctxErr = "e1"
    /\ lchCloses = 1 /\ ~loading

\* a recorded an error while the load was still going on
RecordedDuring(a) == \E t \in DOMAIN info[a].errs : t < closedAt
\* Err() holds a message that identifies target a
Names(a) == \E i \in DOMAIN LoaderErr : LoaderErr[i].a = a

\* C11: when a load ends in failure, Err() identifies every queued target
\* that recorded an error during the load and, after a timeout or a
\* cancellation, every queued target that never ran; no error a queued target
\* recorded during the load is missing from Err().
C11_EveryFailureReported ==
    (Closed /\ Polled /\ LoaderErr # <<>>)
    => \A a \in queue :
          /\ RecordedDuring(a) => Names(a)
          /\ (lpath = "ctx" /\ NeverRan(a)) => Names(a)
          /\ \A t \in DOMAIN info[a].errs :
                 t < closedAt => Er("svc", a, info[a].errs[t]) \in Range(LoaderErr)

\* C12: a caller of Load() is never left hanging: whatever the engine does,
\* a Load() request that has begun ends with its signal closed (unless the
\* process has panicked).
C12_NeverHangs == loading ~> (Closed \/ crashed # "no")

\* the handlers handleEvent has called, in the order of the calls
Called == [i \in DOMAIN calls |-> calls[i].h]
\* the handlers registered under the id of the event, and under "any"
Own == Get(listeners, Lid(ev.scope, ev.key))
ForAny == Get(listeners, "any")

\* C13: with N handlers under the id of the event and M under "any",
\* handleEvent calls N+M handlers: the N in registration order, the M in
\* registration order, each once, and no handler of another key.
C13_ExactlyMatching ==
    cpc = "returned"
    => /\ Len(calls) = Len(Own) + Len(ForAny)
       /\ SelectSeq(Called, LAMBDA h : h \in Range(Own)) = Own
       /\ SelectSeq(Called, LAMBDA h : h \in Range(ForAny)) = ForAny

C13_Witness ==
    /\ cpc = "returned"
    /\ Len(Own) = 2 /\ Len(ForAny) = 1
    /\ Len(calls) = 3

\* C14: after handleEvent, the error of every handler that failed is in the
\* history of the container's ServiceInfo.
C14_FailuresRecorded ==
    cpc = "returned"
    => \A i \in DOMAIN calls :
          calls[i].r # NoErr => calls[i].r \in Range(cinfo.errs)

\* C15: start returns nil whatever the onStart hook returns; a failing hook's
\* error is in the history and the running flag is as it was, a hook that
\* succeeds or is unset leaves ServiceInfo running.
C15_StartReportsSuccess ==
    (cpc = "returned" /\ op = "start")
    => /\ ret = <<>>
       /\ hres # NoErr => /\ hres \in Range(cinfo.errs)
                          /\ cinfo.running = cpre.running
                          /\ cinfo.startedAt = cpre.startedAt
       /\ hres = NoErr => cinfo.running /\ cinfo.errs = cpre.errs

C15_Witness ==
    /\ cpc = "returned" /\ op = "start"
    /\ hres = HookErr("start") /\ ~cinfo.running
    /\ cron = "set" /\ cronOn

\* the steps of stop that wait for the scheduler
AfterDrain == {"cancel", "hook", "stopped", "return"}

\* C16: with a Cron, stop cancels the context, runs onStop, marks ServiceInfo
\* stopped and returns only after Cron.Stop has reported drained, with the
\* scheduler stopped and no job in flight; it returns the stop hook's error
\* joined with the cause, nil when both are nil.
C16_StopAfterDrained ==
    /\ cron # "nil"
       => \A i \in DOMAIN stopLog :
             stopLog[i].step \in AfterDrain
             => /\ stopLog[i].jobs = 0 /\ ~stopLog[i].on
                /\ \E j \in 1..(i - 1) : stopLog[j].step = "drained"
    /\ (cpc = "returned" /\ op = "stop")
       => /\ ret = Join(AsList(hres), AsList(cause))
          /\ ret = <<>> <=> (hres = NoErr /\ cause = NoErr)

C16_Witness ==
    /\ cpc = "returned" /\ op = "stop"
    /\ cron = "set" /\ stopLog[1].step = "drained"
    /\ cause = CauseErr /\ hres = HookErr("stop")
    /\ ret = <<HookErr("stop"), CauseErr>>

\* C17: Dispatch(nil) sends nothing and returns; the Dispatch of any other
\* event returns only when the engine has received that event: the events
\* whose Dispatch has returned are the events received, in order, and a
\* Dispatch nobody receives from stays at the send.
C17_HandOff ==
    /\ NilEvent \notin Range(delivered) /\ NilEvent \notin Range(evbuf)
    /\ (dcount > 0 /\ dev = NilEvent) => dpc = "returned"
    /\ dlog = delivered
    /\ (dpc = "returned" /\ dev # NilEvent)
       => delivered # <<>> /\ delivered[Len(delivered)] = dev

C17_Witness ==
    /\ dcount = 2 /\ dpc = "returned"
    /\ dev # NilEvent /\ delivered = <<dev>>

\* the start.services events the engine has received
StartEvents == {i \in DOMAIN delivered : delivered[i].key = "start.services"}

\* C18: with two Load() calls that overlap, there is one start.services
\* dispatch, one waiter and one close of the channel.
C18_Coalesced ==
    /\ Cardinality(StartEvents) <= 1
    /\ lchCloses <= 1
    /\ ~(l2pc = "waiter" /\ lpc \in WaiterPcs)

\* what Err() returns in every state of a load
C19_ErrValue ==
    /\ loading => LoaderErr = <<ErrChecked>>
    /\ ~loading => /\ LoaderErr = loaderErrs
                   /\ LoaderErr = <<>> <=> Len(loaderErrs) = 0

\* the accumulated errors only grow, at the end
C19_AppendOnly ==
    /\ Len(loaderErrs') >= Len(loaderErrs)
    /\ SubSeq(loaderErrs', 1, Len(loaderErrs)) = loaderErrs

\* C19: Err() returns the usage error while the loading flag is set, whatever
\* has been accumulated; otherwise it returns the accumulated errors, which
\* are kept in the order they were added, and nil exactly when there is none.
C19_ErrContract == []C19_ErrValue /\ [][C19_AppendOnly]_vars

C19_Witness ==
    /\ loading /\ Len(loaderErrs) > 0
    /\ LoaderErr = <<ErrChecked>>

\* C20: NewServiceLoader returns a loader for every host address and every
\* list of names; with a construction failure recorded, Load() closes its
\* signal at once, dispatches nothing, and Err() holds the recorded failures
\* and the "initialization failed" error.
C20_FailuresQueued ==
    /\ crashed # "nil pointer dereference"
    /\ (hostaddr = "nil" /\ Closed)
       => /\ lpath = "init" /\ closedAt = 0
          /\ delivered = <<>>
          /\ {ErrParse, ErrHostAddr, ErrInit} \subseteq Range(LoaderErr)

\* the timeout the claim expects for the configured value
ExpectedTimeout == IF cfgTimeout > 0 THEN cfgTimeout ELSE DefaultTimeout

C21_Deadline ==
    /\ ctxDeadline # Never => timeout = ExpectedTimeout /\ ctxDeadline = ExpectedTimeout
    /\ (Closed /\ queue # {})
       => /\ lpath = "ctx"
          /\ closedAt >= ExpectedTimeout - PollInterval
          /\ closedAt <= ExpectedTimeout + PollInterval

\* C21: the loader's timeout is the configured value when that is positive
\* and 30 seconds when it is zero or negative; with one target that stays
\* pending, the signal is not closed before the deadline (less one poll
\* interval) and is closed once the deadline has passed.
C21_EffectiveTimeout ==
    /\ []C21_Deadline
    /\ (lpc = "select") ~> Closed

C21_Witness ==
    /\ Closed /\ queue # {} /\ cfgTimeout = 0
    /\ closedAt = DefaultTimeout

\* C22: whenever Err() returns a non-nil error, the channel Done() has
\* returned or returns is closed.
C22_ErrImpliesDone ==
    (ErrReadable /\ err # "nil") => done # "open"

\* the ids of the registrations that succeeded, in the order of the Job calls
Registered23 == SelectSeq([i \in DOMAIN jobIDs |-> IF regOk[i] THEN jobIDs[i] ELSE 0 - 1],
                         LAMBDA id : id # 0 - 1)

\* C23: once Start has returned, with the flag set it has launched every job
\* whose registration succeeded, once each, and no job whose registration
\* failed; with the flag clear it has launched none; the jobs it launched run
\* side by side, and the scheduler's timer loop is started.
C23_StartRunsRegistered ==
    /\ kpc = "started" => /\ cronOn
                          /\ firstLog = IF startFlag THEN Registered23 ELSE <<>>
    /\ firstRuns <= Len(firstLog)
    /\ \A i \in DOMAIN firstLog : \E j \in DOMAIN jobIDs : regOk[j] /\ jobIDs[j] = firstLog[i]

C23_Witness ==
    /\ kpc = "started" /\ startFlag
    /\ Len(jobIDs) = 3 /\ Len(firstLog) = 2
    /\ firstRuns = 2

\* C24: when Stop has returned, no job of the Cron is running, whether the
\* timer loop started it or Start did.
C24_StopDrainsAll ==
    kpc = "stopped" => cronJobs = 0 /\ firstRuns = 0

\* the errors Errs() holds
Retrievable25 == {cinfo.errs[t] : t \in DOMAIN cinfo.errs}

\* C25: between two calls on the ServiceInfo, every non-nil error addErr was
\* handed so far is among the values of Errs().
C25_HistoryKept ==
    wpc = "idle" => \A i \in DOMAIN passed : passed[i] \in Retrievable25

\* C25, the rest of the claim: addErr(nil), started and stopped leave the
\* history as it is, and Failed() never goes back to false
C25_FailedStays ==
    [][/\ Failed(cinfo) => Failed(cinfo')
       /\ (wpc = "write" /\ warg.o = "addErr") \/ cinfo'.errs = cinfo.errs]_vars

\* C26: while the poll ranges over the error history and the container is
\* inside addErr, about to write the map, the poll holds the read lock.
C26_ReadsLocked ==
    (rpc = "iter" /\ wpc = "write" /\ warg.o = "addErr") => imu.r > 0

\* C27: when a call of the container has returned and its hook returned an
\* error, that error is in the ServiceInfo history, and it is in what the call
\* returned only if the call is initialize or stop.
C27_HookErrors ==
    (cpc = "returned" /\ hres # NoErr) =>
        /\ hres \in Retrievable25
        /\ op \notin {"initialize", "stop"} => \A i \in DOMAIN ret : ret[i] # hres

\* C27, the part that holds: initialize and start record the error of their
\* hook; initialize and stop return it; start does not
C27_Part ==
    (cpc = "returned" /\ hres # NoErr) =>
        /\ op \in {"initialize", "start"} => hres \in Retrievable25
        /\ op \in {"initialize", "stop"} => \E i \in DOMAIN ret : ret[i] = hres
        /\ op = "start" => ret = <<>>

\* a start whose hook succeeded has returned, after an earlier run whose
\* context was cancelled, the engine's context being live
Restarted28 ==
    /\ cpc = "returned" /\ op = "start" /\ hres = NoErr
    /\ pastCtx # <<>> /\ pastCtx[Len(pastCtx)].state = "cancelled"
    /\ ectx = "live"

\* C28: after a restart the ServiceInfo is running, the container's context
\* is a new one that is not cancelled, although the context of the run before
\* is, and the error history is the one the run before left.
C28_Restart ==
    Restarted28 => /\ cinfo.running
                   /\ cctx = "live" /\ ccause = NoErr
                   /\ cinfo.errs = cpre.errs

C28_Witness ==
    /\ Restarted28 /\ cron = "set"
    /\ cinfo.running /\ cctx = "live"
    /\ cinfo.errs # <<>>

\* stop has returned, having been called on a running container, and the
\* engine's context is live
Stopped29 ==
    /\ cpc = "returned" /\ op = "stop" /\ cpre.running
    /\ ectx = "live"

\* C29: after such a stop the container's context is cancelled and its cause
\* is the cause stop was called with (context.Canceled for a nil cause); no
\* step of the container cancels the engine's context; and when the engine's
\* context is cancelled, every context derived from it is.
C29_CancelCause ==
    /\ [](Stopped29 => cctx = "cancelled" /\ ccause = IF cause = NoErr THEN CanceledErr ELSE cause)
    /\ [](ectx = "cancelled" =>
            /\ cctx \in {"nil", "cancelled"}
            /\ \A i \in DOMAIN pastCtx : pastCtx[i].state = "cancelled")
    /\ [][ectx' # ectx => cpc' = cpc]_vars

C29_Witness ==
    /\ Stopped29 /\ cause = CauseErr
    /\ cctx = "cancelled" /\ ccause = CauseErr

\* C30: a goroutine that is about to call a user hook, or to send on or
\* receive from a channel, holds none of the three locks.
C30_NoLockAcrossHooks ==
    \A t \in Threads :
        (InOp(t) /\ NextOp(t).k \in {"hook", "send", "recv"}) => Held(t) = {}

C30_Witness ==
    \E t, u \in Threads :
        /\ InOp(t) /\ lop[t] = "start" /\ NextOp(t).k = "send"
        /\ InOp(u) /\ lop[u] = "Destroy" /\ lw["session"] = u

\* C31: when initialize has returned: if the hook returned an error, the
\* error is in the ServiceInfo history and is what initialize returned, no
\* Cron was built and the setup callback was not called; otherwise, with a
\* cron setup, one Cron was built and handed to the callback once; and a
\* container whose Service has no cron setup never has a Cron.
C31_Initialize ==
    /\ (cpc = "returned" /\ op = "initialize") =>
          /\ hres # NoErr => /\ hres \in Retrievable25 /\ ret = <<hres>>
                             /\ cron = "nil" /\ cronBuilt = 0 /\ setupCalls = 0
          /\ (hres = NoErr /\ cronsetup = "set") =>
                 cron = "set" /\ cronBuilt = 1 /\ setupCalls = 1 /\ ret = <<>>
    /\ cronsetup = "nil" => cron = "nil" /\ cronBuilt = 0 /\ setupCalls = 0

C31_Witness ==
    /\ cpc = "returned" /\ op = "initialize"
    /\ hres = HookErr("initialize") /\ cronsetup = "set"
    /\ cron = "nil" /\ setupCalls = 0

\* the request passed validation: the scan ended without an error
Validated32 == lpc \in {"mkctx", "wstart", "select", "poll", "expire", "done"} \/ Polled
\* the targets that were not Running when the scan visited them, in request order
RECURSIVE NotRunningFrom32(_)
NotRunningFrom32(i) ==
    IF i > Len(seenRunning) THEN <<>>
    ELSE (IF seenRunning[i] THEN <<>> ELSE <<svcs[i]>>) \o NotRunningFrom32(i + 1)
NotRunning32 == NotRunningFrom32(1)

C32_Dispatched ==
    /\ Len(delivered) <= 1
    /\ delivered # <<>> => delivered[1] = StartServicesEvent(NotRunning32)
    /\ Validated32 => /\ Len(delivered) = 1
                      /\ Len(seenRunning) = Len(svcs)
                      /\ queue = {NotRunning32[i] : i \in DOMAIN NotRunning32}
                      /\ todo \subseteq queue

\* C32: a Load() that passes validation dispatches one start.services event,
\* whose payload is the targets that were not Running when the scan visited
\* them, in request order; the queue the waiter polls holds those targets and
\* no other; and no step of the loader changes a ServiceInfo.
C32_OneEvent ==
    /\ []C32_Dispatched
    /\ [][info' # info => envLeft' # envLeft]_vars

C32_Witness ==
    /\ Closed /\ lpath = "success"
    /\ Len(svcs) = 2 /\ seenRunning = <<TRUE, FALSE>>
    /\ Len(delivered) = 1 /\ Len(delivered[1].payload) = 1

\* a poll ends without failure: with success, or with the next select
PollPasses33 == lpc = "poll" /\ lpc' \in {"done", "select"}

\* C33: a poll that began with a recorded error on a queued target ends in
\* failure, whatever the targets' Running() says; and a poll ends in success
\* only when it found every queued target Running and without a recorded
\* error.
C33_FailFastFirst ==
    /\ [][PollPasses33 => tickErrs = {}]_vars
    /\ [][(lpc = "poll" /\ lpc' = "done") => tickSeen = queue]_vars
    /\ [](lpath = "success" => tickSeen = queue /\ tickErrs = {})
    /\ []((lpc = "cancel" /\ reason.k = "failfast") => \E a \in queue : FailFast(info[a]))

\* a load failed fast although every queued target was Running
C33_Witness ==
    /\ Closed /\ lpath = "failfast"
    /\ tickErrs # {}
    /\ \A a \in queue : info[a].running

\* goroutine t enters Destroy
Enters34(t) == pc[t] = "idle" /\ pc'[t] = "check"
\* a Value call that is not a probe with a signal error
Plain34 ==
    /\ lastCall' # lastCall /\ lastCall'.op = "Value"
    /\ lastCall'.key # "*int" \/ sig = "nil" \/ sigErr = "nil"

\* C34: Destroy runs only for an explicit Destroy call or for a Value call
\* with a *int key made while the signal context reports an error, and then
\* with that error as its argument; such a Value call does run Destroy, and
\* Value with a *int key returns nil; any other Value call changes nothing
\* of the Session; and Err() changes only in a step of Destroy.
C34_OnlyProbe ==
    /\ [][\A t \in Procs : Enters34(t) =>
             \/ lastCall'.op = "Destroy" /\ arg'[t] = lastCall'.arg
             \/ /\ sig # "nil" /\ sigErr # "nil" /\ arg'[t] = sigErr
                /\ lastCall' = [op |-> "Value", key |-> "*int", ret |-> "nil",
                                destroy |-> sigErr]]_vars
    /\ [][(/\ lastCall' # lastCall /\ lastCall'.op = "Value"
            /\ lastCall'.key = "*int" /\ sig # "nil" /\ sigErr # "nil")
           => \E t \in Procs : Enters34(t) /\ arg'[t] = sigErr]_vars
    /\ [][Plain34 => /\ UNCHANGED <<sessFields, sessProcs, sessHist>>
                     /\ lastCall'.destroy = "none"]_vars
    /\ [][err' # err => \E t \in Procs : pc[t] \in {"lock1", "gate"} /\ pc'[t] # pc[t]]_vars
    /\ []((lastCall.op = "Value" /\ lastCall.key = "*int") => lastCall.ret = "nil")

\* the probe destroyed the Session with the signal context's error
C34_Witness ==
    /\ lastCall.op = "Value" /\ lastCall.destroy = Canceled
    /\ err = Canceled /\ AllIdle /\ done = "closed" /\ crashed = "no"

\* the notification channel, once closed, stays closed; the second Load()
\* does not end normally, and each close it attempts finds the channel closed
C35_Common ==
    /\ [][loaderCh = "closed" => loaderCh' = "closed"]_vars
    /\ [](again # "no" => lpc # "finished" /\ loaderCh = "closed")
    /\ [][(again # "no" /\ lchCloses' # lchCloses) => crashed' = "close of closed channel"]_vars
    /\ []((again = "errors" /\ lpc = "close") => lpath = "init")

C35_WitnessWaiter == again = "clean" /\ crashed = "close of closed channel" /\ Polled
C35_WitnessErrors == again = "errors" /\ crashed = "close of closed channel"

\* C37: no send on s.evch finds the channel closed, whether the Dispatch was
\* blocked in its send when Destroy closed the channel or was called after
\* Destroy returned.
C37_NoSendOnClosed == crashed # "send on closed channel"

\* Destroy has closed s.done while the Load() request has not ended its polling
Destroyed36 ==
    /\ done = "closed" /\ err # "nil"
    /\ lpc \in {"new", "scan", "dispatch", "mkctx", "wstart", "select", "poll"}
\* the addresses of the "did not load on time" errors
LateIn(errs) == {errs[i].a : i \in {j \in DOMAIN errs : errs[j].k = "late"}}
\* the load ended as cancelled by the Session
Cancelled36 ==
    /\ Closed /\ lpath = "ctx"
    /\ ctxErr = err
    /\ loaderErrs # <<>> /\ loaderErrs[Len(loaderErrs)] = ErrCtx(err)
    /\ LateIn(loaderErrs) \subseteq queue
    /\ \A a \in queue : ~info[a].running => a \in LateIn(loaderErrs)

\* C36: when the Session is destroyed before the Load() request has ended
\* its polling, the request ends with the signal closed, the waiter's context
\* cancelled with the Session's error and not by the timeout, and Err() made
\* of one "did not load on time" error per queued target that is not
\* running, followed by the Session's error.
C36_BoundToSession == [](Destroyed36 => <>Cancelled36)

\* C38: whenever the notification channel is closed the loading flag is
\* false, so Err() is the accumulated errors and not the usage error, and no
\* error is appended after the close.
C38_ClosedMeansFinal ==
    /\ [](loaderCh = "closed" => ~loading /\ LoaderErr = loaderErrs)
    /\ [][loaderCh = "closed" => loaderErrs' = loaderErrs]_vars

\* C39: after a call of start or stop has returned, Running() is true only
\* if that call was a start whose hook succeeded; after a start whose hook
\* failed Running() is false and the service.started event it dispatched
\* carries running = false.
C39_RunningTracksLast ==
    /\ (cpc = "returned" /\ cinfo.running) => (op = "start" /\ lerr = <<>>)
    /\ (cpc = "returned" /\ op = "start" /\ lerr # <<>>)
       => /\ ~cinfo.running
          /\ delivered # <<>>
          /\ delivered[Len(delivered)].key = "service.started"
          /\ ~delivered[Len(delivered)].payload.running

====
